---- MODULE Spec2Model ----
(***************************************************************************)
(* Keycode codec and key popover of pipette-desktop.                       *)
(*                                                                         *)
(* The codec (range predicates, extract and build functions, resolve) is   *)
(* the one the popover's test suite supplies for                           *)
(* shared/keycodes/keycodes (KeyPopover.test.tsx, lines 58-130); the       *)
(* popover is the KeyPopover component with the LT / SH_T / LM wrapper     *)
(* modes (the listing that follows ModifierCheckboxStrip.test.tsx, lines   *)
(* 124-506), of which KeyPopover.tsx holds the earlier two-mode form.      *)
(* ModifierCheckboxStrip is the component of ModifierCheckboxStrip.tsx,    *)
(* and LZMA / XZ decompression is src/unnamed/part_004.  The favorites     *)
(* hook is renderer/hooks/useFavoriteManage.ts, the Content-Security-      *)
(* Policy builder src/unnamed/part_003 and the device connection hook      *)
(* src/unnamed/part_001.  Each part has its own variables and              *)
(* specification; the others stay idle meanwhile.                          *)
(***************************************************************************)
EXTENDS Integers, Sequences, FiniteSets, TLC

VARIABLES
    fn,     \* codec: the codec function applied last ("init" before any)
    arg,    \* codec: its inputs, [code, layer, mask, key, name]
    out,    \* codec: the code it returned (classify: the code classified)
    kind,   \* codec: the wrapper mode that code classifies as
    currentKeycode, \* popover: the currentKeycode prop (set by the parent)
    maskOnly,       \* popover: the maskOnly prop
    wrapperMode,    \* popover: state wrapperMode
    selectedLayer,  \* popover: state selectedLayer
    activeTab,      \* popover: state activeTab
    hexInput,       \* popover: the Code tab's text field
    lastOp,         \* popover: the handler that ran last and the callback it made
    modMaskProp, \* strip: the modMask prop (set by the parent from onChange)
    lastClick,  \* strip: the button clicked last and the onChange call it made
    data,       \* lzma: the data argument of the LZMA_DECOMPRESS request
    route,      \* lzma: what the handler did with it
    promise,    \* lzma: the promise the handler returned
    chunks,     \* xz: chunks, the stdout chunks kept
    arrived,    \* xz: every stdout chunk emitted, in arrival order
    totalSize,  \* xz: totalSize
    settled,    \* xz: settled
    timer,      \* xz: the timeout timer
    child,      \* xz: the child process
    lzmaCalled, \* lzma: whether lzmaModule.decompress was called
    libResult,  \* lzma: what lzmaModule.decompress did (threw, or called back)
    lastEvent,  \* lzma: the event handled last
    favoriteType,   \* favorites: the favoriteType argument of the hook
    entries,        \* favorites: state entries
    exporting,      \* favorites: state exporting
    importing,      \* favorites: state importing
    importResult,   \* favorites: state importResult
    calls,          \* favorites: the calls of the hook's functions, by slot
    isDev,      \* csp: the isDev argument of buildCsp
    csp,        \* csp: the policy buildCsp returned
    cspQuery,   \* csp: the directive name and source looked up in the policy
    cspAnswer,  \* csp: what the lookup found
    state,              \* device: state of useDeviceConnection
    mountedRef,         \* device: mountedRef.current
    connectedDeviceRef, \* device: connectedDeviceRef.current
    isDummyRef,         \* device: isDummyRef.current
    cancelled,          \* device: cancelled of the polling effect
    timerId,            \* device: the timer of the next poll
    polls,              \* device: the polls in flight, each by the call it awaits
    opening,            \* device: the device of the connectDevice call in flight
    closing,            \* device: whether a disconnectDevice call awaits closeDevice
    refreshing,         \* device: whether a refreshDevices call is in flight
    devEvent            \* device: the step taken last

codecVars == <<fn, arg, out, kind>>

popVars ==
    <<currentKeycode, maskOnly, wrapperMode, selectedLayer, activeTab, hexInput, lastOp>>

stripVars == <<modMaskProp, lastClick>>

lzmaVars ==
    <<data, route, promise, chunks, arrived, totalSize, settled, timer, child,
      lzmaCalled, libResult, lastEvent>>

favVars == <<favoriteType, entries, exporting, importing, importResult, calls>>

cspVars == <<isDev, csp, cspQuery, cspAnswer>>

devVars ==
    <<state, mountedRef, connectedDeviceRef, isDummyRef, cancelled, timerId,
      polls, opening, closing, refreshing, devEvent>>

vars == <<codecVars, popVars, stripVars, lzmaVars, favVars, cspVars, devVars>>

\* what the actions of each part leave alone
codecRest == <<popVars, stripVars, lzmaVars, favVars, cspVars, devVars>>

popRest == <<codecVars, stripVars, lzmaVars, favVars, cspVars, devVars>>

stripRest == <<codecVars, popVars, lzmaVars, favVars, cspVars, devVars>>

lzmaRest == <<codecVars, popVars, stripVars, favVars, cspVars, devVars>>

favRest == <<codecVars, popVars, stripVars, lzmaVars, cspVars, devVars>>

cspRest == <<codecVars, popVars, stripVars, lzmaVars, favVars, devVars>>

devRest == <<codecVars, popVars, stripVars, lzmaVars, favVars, cspVars>>

(***************************************************************************)
(* Bounds of the model.                                                    *)
(***************************************************************************)
\* How far the inputs handed to the build functions reach outside their
\* field (below 0 and above the field's maximum).
Over == 2

\* The layers prop of the popover: the layer selector offers 0 .. Layers - 1.
Layers == 4

\* The calls of the functions of useFavoriteManage that may be in flight at
\* once.
MaxCalls == 2

(***************************************************************************)
(* JavaScript's integer operators on the values the codec handles.         *)
(* & and | work on the 32-bit two's complement of their operands; every    *)
(* right operand of & in the codec is a mask below 2^16, so the result     *)
(* depends on the low 16 bits of the left operand only.                    *)
(***************************************************************************)
RECURSIVE BitAnd(_, _)
BitAnd(a, b) ==
    IF a = 0 \/ b = 0 THEN 0
    ELSE (a % 2) * (b % 2) + 2 * BitAnd(a \div 2, b \div 2)

RECURSIVE BitOr(_, _)
BitOr(a, b) ==
    IF a = 0 THEN b
    ELSE IF b = 0 THEN a
    ELSE (IF a % 2 = 1 \/ b % 2 = 1 THEN 1 ELSE 0) + 2 * BitOr(a \div 2, b \div 2)

RECURSIVE BitXor(_, _)
BitXor(a, b) ==
    IF a = 0 THEN b
    ELSE IF b = 0 THEN a
    ELSE (IF a % 2 = b % 2 THEN 0 ELSE 1) + 2 * BitXor(a \div 2, b \div 2)

\* x & m, for a mask 0 <= m < 2^16
And(x, m) == BitAnd(x % 65536, m)

\* x >> n (arithmetic shift: floor division) and x << n, for x >= 0 small
RECURSIVE Pow2(_)
Pow2(n) == IF n = 0 THEN 1 ELSE 2 * Pow2(n - 1)

Shr(x, n) == x \div Pow2(n)

Shl(x, n) == x * Pow2(n)

(***************************************************************************)
(* Range predicates.                                                       *)
(***************************************************************************)
isLMKeycode(code) == code >= \h7000 /\ code <= \h70ff

isLTKeycode(code) == code >= \h4000 /\ code < \h5000

isSHTKeycodeOffByOne(code) == code >= \h5600 /\ code < \h56ef

isSHTKeycode(code) == code >= \h5600 /\ code <= \h56ef

isModMaskKeycode(code) == code >= \h0100 /\ code <= \h1fff

isModTapKeycode(code) == code >= \h6000 /\ code < \h8000

(***************************************************************************)
(* Extract functions.                                                      *)
(***************************************************************************)
extractLTLayerShift4(code) == And(Shr(code, 4), \h0f)

extractLTLayer(code) == And(Shr(code, 8), \h0f)

extractLMLayer(code) == And(Shr(code, 4), \h0f)

extractLMMod(code) == And(code, \h1f)

extractModMask(code) == And(Shr(code, 8), \h1f)

extractBasicKey(code) == And(code, \hff)

(***************************************************************************)
(* Build functions.                                                        *)
(***************************************************************************)
buildLTKeycode(layer, basicKey) ==
    BitOr(BitOr(\h4000, Shl(And(layer, \h0f), 8)), And(basicKey, \hff))

buildSHTKeycode(basicKey) == BitOr(\h5600, And(basicKey, \hff))

buildLMKeycode(layer, mod) ==
    BitOr(BitOr(\h7000, Shl(And(layer, \h0f), 4)), And(mod, \h1f))

buildModMaskKeycodeNarrowMask(mask, key) ==
    IF mask = 0 THEN And(key, \hff)
    ELSE BitOr(Shl(And(mask, \h0f), 8), And(key, \hff))

buildModMaskKeycode(mask, key) ==
    IF mask = 0 THEN And(key, \hff)
    ELSE BitOr(Shl(And(mask, \h1f), 8), And(key, \hff))

buildModTapKeycodeAlwaysTagged(mask, key) ==
    BitOr(BitOr(\h6000, Shl(And(mask, \h1f), 8)), And(key, \hff))

buildModTapKeycode(mask, key) ==
    IF mask = 0 THEN And(key, \hff)
    ELSE BitOr(BitOr(\h6000, Shl(And(mask, \h1f), 8)), And(key, \hff))

(***************************************************************************)
(* Classification: the wrapper mode the popover derives from a keycode,    *)
(* first match wins.                                                       *)
(***************************************************************************)
WrapperModes == {"none", "modMask", "modTap", "lt", "shT", "lm"}

classifyModTapFirst(code) ==
    IF isLTKeycode(code) THEN "lt"
    ELSE IF isSHTKeycode(code) THEN "shT"
    ELSE IF isModTapKeycode(code) THEN "modTap"
    ELSE IF isLMKeycode(code) THEN "lm"
    ELSE IF isModMaskKeycode(code) THEN "modMask"
    ELSE "none"

classify(code) ==
    IF isLTKeycode(code) THEN "lt"
    ELSE IF isSHTKeycode(code) THEN "shT"
    ELSE IF isLMKeycode(code) THEN "lm"
    ELSE IF isModTapKeycode(code) THEN "modTap"
    ELSE IF isModMaskKeycode(code) THEN "modMask"
    ELSE "none"

(***************************************************************************)
(* The catalog and resolve.                                                *)
(***************************************************************************)
\* [qmkId, alias] of every catalog entry
mockKeycodes ==
    { [qmkId |-> "KC_TRNS",  alias |-> {"KC_TRNS", "KC_TRANSPARENT"}],
      [qmkId |-> "KC_A",     alias |-> {"KC_A"}],
      [qmkId |-> "KC_B",     alias |-> {"KC_B"}],
      [qmkId |-> "KC_ENTER", alias |-> {"KC_ENTER", "KC_ENT"}],
      [qmkId |-> "KC_SPACE", alias |-> {"KC_SPACE", "KC_SPC"}] }

mockLayerKeycodes == { [qmkId |-> "MO(1)", alias |-> {"MO(1)"}] }

mockLMMods ==
    { [qmkId |-> "MOD_LSFT", alias |-> {"MOD_LSFT"}],
      [qmkId |-> "MOD_LCTL", alias |-> {"MOD_LCTL"}] }

Catalog == mockKeycodes \cup mockLayerKeycodes \cup mockLMMods

\* every catalog id and alias
CatalogNames == UNION { {e.qmkId} \cup e.alias : e \in Catalog }

resolveFallbackOne(name) ==
    IF name = "QMK_LM_MASK" THEN \h1f
    ELSE IF name = "QK_LAYER_TAP" THEN \h4000
    ELSE IF name = "SH_T(kc)" THEN \h5600
    ELSE IF name = "KC_A" THEN 4
    ELSE IF name = "KC_B" THEN 5
    ELSE IF name = "KC_SPACE" THEN \h2c
    ELSE IF name = "KC_ENTER" THEN \h28
    ELSE IF name = "MOD_LSFT" THEN \h02
    ELSE IF name = "MOD_LCTL" THEN \h01
    ELSE 1

resolve(name) ==
    IF name = "QMK_LM_MASK" THEN \h1f
    ELSE IF name = "QK_LAYER_TAP" THEN \h4000
    ELSE IF name = "SH_T(kc)" THEN \h5600
    ELSE IF name = "KC_A" THEN 4
    ELSE IF name = "KC_B" THEN 5
    ELSE IF name = "KC_SPACE" THEN \h2c
    ELSE IF name = "KC_ENTER" THEN \h28
    ELSE IF name = "MOD_LSFT" THEN \h02
    ELSE IF name = "MOD_LCTL" THEN \h01
    ELSE 0

(***************************************************************************)
(* Composite names "OUTER(INNER)".  Of shared/keycodes/keycodes the        *)
(* sources at hand hold the declarations and the callers only (the test    *)
(* suite's resolve and serialize are tables); composite resolution,        *)
(* serialize and findOuterKeycode are modelled from the specification's    *)
(* description, findInnerKeycode from the test suite's implementation.     *)
(***************************************************************************)
UpperDigits == "0123456789ABCDEF"

LowerDigits == "0123456789abcdef"

Char(text, i) == SubSeq(text, i, i)

IsHexDigit(ch) == \E i \in 1 .. 16 : Char(UpperDigits, i) = ch \/ Char(LowerDigits, i) = ch

HexDigitValue(ch) ==
    (CHOOSE i \in 1 .. 16 : Char(UpperDigits, i) = ch \/ Char(LowerDigits, i) = ch) - 1

RECURSIVE ParseHex(_)
ParseHex(text) ==
    IF Len(text) = 0 THEN 0
    ELSE 16 * ParseHex(SubSeq(text, 1, Len(text) - 1))
             + HexDigitValue(Char(text, Len(text)))

RECURSIVE ToHex(_, _)
ToHex(n, digits) ==
    IF digits = 0 THEN ""
    ELSE ToHex(n \div 16, digits - 1) \o Char(UpperDigits, (n % 16) + 1)

DecDigits == "0123456789"

IsDecDigit(ch) == \E i \in 1 .. 10 : Char(DecDigits, i) = ch

DecDigitValue(ch) == (CHOOSE i \in 1 .. 10 : Char(DecDigits, i) = ch) - 1

RECURSIVE ParseDec(_)
ParseDec(text) ==
    IF Len(text) = 0 THEN 0
    ELSE 10 * ParseDec(SubSeq(text, 1, Len(text) - 1))
             + DecDigitValue(Char(text, Len(text)))

RECURSIVE ToDec(_)
ToDec(n) ==
    IF n < 10 THEN Char(DecDigits, n + 1)
    ELSE ToDec(n \div 10) \o Char(DecDigits, (n % 10) + 1)

RECURSIVE ToHexLower(_)
ToHexLower(n) ==
    IF n < 16 THEN Char(LowerDigits, n + 1)
    ELSE ToHexLower(n \div 16) \o Char(LowerDigits, (n % 16) + 1)

RECURSIVE padStart(_, _)
padStart(text, width) ==
    IF Len(text) >= width THEN text ELSE padStart("0" \o text, width)

\* the positions of a character in a name
PositionsOf(name, ch) == { i \in 1 .. Len(name) : Char(name, i) = ch }

Min(S) == CHOOSE x \in S : \A y \in S : x <= y

\* a composite name has an opening parenthesis and ends with a closing one
isComposite(name) ==
    /\ PositionsOf(name, "(") # {}
    /\ Len(name) >= 1
    /\ Char(name, Len(name)) = ")"

\* everything before the first "("
outerPart(name) == SubSeq(name, 1, Min(PositionsOf(name, "(")) - 1)

\* everything between the first "(" and the last ")"
innerPart(name) == SubSeq(name, Min(PositionsOf(name, "(")) + 1, Len(name) - 1)

\* prefix followed by a decimal number: LT0 .. LT15, LM0 .. LM15
hasLayerSuffix(outer, prefix) ==
    /\ Len(outer) > Len(prefix)
    /\ SubSeq(outer, 1, Len(prefix)) = prefix
    /\ \A i \in Len(prefix) + 1 .. Len(outer) : IsDecDigit(Char(outer, i))

layerSuffix(outer, prefix) == ParseDec(SubSeq(outer, Len(prefix) + 1, Len(outer)))

\* the wrapper of an outer name applied to the resolved inner value
combineOuter(outer, inner) ==
    IF hasLayerSuffix(outer, "LT")
    THEN buildLTKeycode(layerSuffix(outer, "LT"), inner)
    ELSE IF hasLayerSuffix(outer, "LM")
    THEN buildLMKeycode(layerSuffix(outer, "LM"), inner)
    ELSE IF outer = "SH_T" THEN buildSHTKeycode(inner)
    ELSE IF outer = "LSFT" THEN buildModMaskKeycode(resolve("MOD_LSFT"), inner)
    ELSE 0

\* resolve of any name: a bare name through the table, a composite name by
\* resolving its inner part and combining it with the outer wrapper
RECURSIVE resolveComposite(_)
resolveComposite(name) ==
    IF isComposite(name)
    THEN combineOuter(outerPart(name), resolveComposite(innerPart(name)))
    ELSE resolve(name)

NoEntry == [qmkId |-> "", alias |-> {}]

\* the catalog entries of the wrappers
outerKeycodes ==
    { [qmkId |-> "LT" \o ToDec(n) \o "(kc)", alias |-> {"LT" \o ToDec(n) \o "(kc)"}]
          : n \in 0 .. 15 }
    \cup
    { [qmkId |-> "LM" \o ToDec(n) \o "(kc)", alias |-> {"LM" \o ToDec(n) \o "(kc)"}]
          : n \in 0 .. 15 }
    \cup
    { [qmkId |-> "SH_T(kc)", alias |-> {"SH_T(kc)"}],
      [qmkId |-> "LSFT(kc)", alias |-> {"LSFT(kc)"}] }

allMockKeycodes == mockKeycodes \cup mockLMMods

\* find: the entry of a set with the given id, if any
findByQmkId(catalog, qmkId) ==
    IF \E e \in catalog : e.qmkId = qmkId
    THEN CHOOSE e \in catalog : e.qmkId = qmkId
    ELSE NoEntry

findOuterKeycode(name) ==
    IF PositionsOf(name, "(") # {}
    THEN findByQmkId(outerKeycodes, outerPart(name) \o "(kc)")
    ELSE findByQmkId(mockKeycodes, name)

\* the first "(" that is followed by one or more characters other than ")"
\* and then a ")": the match of /\(([^)]+)\)/
innerMatches(name) ==
    { i \in PositionsOf(name, "(") :
          \E j \in PositionsOf(name, ")") :
              /\ j > i + 1
              /\ \A k \in i + 1 .. j - 1 : Char(name, k) # ")" }

innerMatch(name) ==
    LET i == Min(innerMatches(name))
        j == Min({ k \in PositionsOf(name, ")") : k > i })
    IN  SubSeq(name, i + 1, j - 1)

findInnerKeycodeWholeName(name) == findByQmkId(mockKeycodes, name)

findInnerKeycode(name) ==
    IF innerMatches(name) # {}
    THEN findByQmkId(allMockKeycodes, innerMatch(name))
    ELSE findByQmkId(mockKeycodes, name)

\* the name of a basic value: the id of the entry of `catalog` that resolves
\* to it, else the value in hexadecimal
innerName(catalog, value) ==
    IF value # 0 /\ \E e \in catalog : resolve(e.qmkId) = value
    THEN (CHOOSE e \in catalog : resolve(e.qmkId) = value).qmkId
    ELSE "0x" \o ToHexLower(value)

serialize(code) ==
    IF isLTKeycode(code)
    THEN "LT" \o ToDec(extractLTLayer(code)) \o "("
              \o innerName(mockKeycodes, extractBasicKey(code)) \o ")"
    ELSE IF isSHTKeycode(code)
    THEN "SH_T(" \o innerName(mockKeycodes, extractBasicKey(code)) \o ")"
    ELSE IF isLMKeycode(code)
    THEN "LM" \o ToDec(extractLMLayer(code)) \o "("
              \o innerName(mockLMMods, extractLMMod(code)) \o ")"
    ELSE IF isModMaskKeycode(code) /\ extractModMask(code) = resolve("MOD_LSFT")
    THEN "LSFT(" \o innerName(mockKeycodes, extractBasicKey(code)) \o ")"
    ELSE IF code # 0 /\ \E e \in mockKeycodes : resolve(e.qmkId) = code
    THEN innerName(mockKeycodes, code)
    ELSE "0x" \o padStart(ToHexLower(code), 4)

(***************************************************************************)
(* The codec applied to inputs: one action per function.                   *)
(***************************************************************************)
Codes == 0 .. \hffff

LayerInputs == (0 - Over) .. (15 + Over)

MaskInputs == (0 - Over) .. (31 + Over)

KeyInputs == (0 - Over) .. (255 + Over)

\* names handed to resolve: the catalog's ids and aliases, the names of
\* protocol constants, composite names, and names nobody defines
NameInputs ==
    CatalogNames \cup
    { "QMK_LM_MASK", "QK_LAYER_TAP", "SH_T(kc)", "LT0(KC_A)", "KC_Z", "kc_a",
      "KC_", "FOO", "" }

NoArg ==
    [code |-> 0, layer |-> 0, mask |-> 0, key |-> 0, name |-> "",
     outer |-> "", inner |-> ""]

NoEmit == 0 - 1

NoOp ==
    [op |-> "mount", target |-> "none", n |-> 0, name |-> "",
     before |-> 0, cb |-> "none", code |-> NoEmit]

NoClick ==
    [op |-> "none", bit |-> 0, right |-> FALSE, before |-> 0, called |-> FALSE,
     value |-> 0]

\* the strip variables while another part is exercised
StripUnmounted ==
    /\ modMaskProp = 0
    /\ lastClick = NoClick

NoData == [type |-> "none", length |-> 0, head |-> <<>>]

NoPromise == [state |-> "none", null |-> FALSE, text |-> "", size |-> 0]

\* the exit code null of a 'close' event
NullCode == 0 - 1

NoChild ==
    [spawned |-> FALSE, stdinEnded |-> FALSE, kills |-> 0, closed |-> FALSE,
     code |-> NullCode, errored |-> FALSE]

\* lzmaModule.decompress not called yet; size is the length of the string or
\* array handed to the callback, utf8 the UTF-8 byte length of the string
\* (of the decoded string, for an array)
NoLibResult ==
    [outcome |-> "none", error |-> FALSE, kind |-> "null", text |-> "",
     size |-> 0, utf8 |-> 0]

\* the LZMA_DECOMPRESS handler before any request
LzmaIdle ==
    /\ data = NoData
    /\ route = "idle"
    /\ promise = NoPromise
    /\ chunks = <<>>
    /\ arrived = <<>>
    /\ totalSize = 0
    /\ settled = FALSE
    /\ timer = "unset"
    /\ child = NoChild
    /\ lzmaCalled = FALSE
    /\ libResult = NoLibResult
    /\ lastEvent = "none"

\* importResult null
NoImportResult == [null |-> TRUE, imported |-> 0, skipped |-> 0]

\* what a call of window.vialAPI does: outcome "success" or "failure" are
\* the success flag of the result, "throw" a call that throws or rejects
StoreResult(outcome, error, imported, skipped) ==
    [outcome |-> outcome, error |-> error, imported |-> imported,
     skipped |-> skipped, hasEntries |-> FALSE, entries |-> <<>>]

NoResult == StoreResult("none", "", 0, 0)

\* a slot no function of the hook was called in
NoCall ==
    [op |-> "none", pc |-> "idle", result |-> NoResult, ret |-> "none",
     listed |-> FALSE, listArg |-> "", solo |-> FALSE]

\* the slots of the calls of the hook's functions
Slots == 1 .. MaxCalls

\* useFavoriteManage before it is rendered
FavoriteIdle ==
    /\ favoriteType = ""
    /\ entries = <<>>
    /\ exporting = FALSE
    /\ importing = FALSE
    /\ importResult = NoImportResult
    /\ calls = [c \in Slots |-> NoCall]

NoQuery == [name |-> "", source |-> ""]

NoAnswer == [asked |-> FALSE, present |-> FALSE, has |-> FALSE]

\* buildCsp before it is called
CspIdle ==
    /\ isDev = FALSE
    /\ csp = ""
    /\ cspQuery = NoQuery
    /\ cspAnswer = NoAnswer

\* connectedDevice null
NoDevice == "null"

\* useState's initial DeviceConnectionState
InitialState ==
    [devices |-> {}, connectedDevice |-> NoDevice, connecting |-> FALSE,
     error |-> "null", isDummy |-> FALSE]

NoDevEvent == [op |-> "none", closeDevice |-> FALSE]

\* useDeviceConnection before it is rendered
DeviceIdle ==
    /\ state = InitialState
    /\ mountedRef = FALSE
    /\ connectedDeviceRef = NoDevice
    /\ isDummyRef = FALSE
    /\ cancelled = FALSE
    /\ timerId = "null"
    /\ polls = <<>>
    /\ opening = NoDevice
    /\ closing = FALSE
    /\ refreshing = FALSE
    /\ devEvent = NoDevEvent

\* the popover variables while the codec alone is exercised
PopoverUnmounted ==
    /\ currentKeycode = 0
    /\ maskOnly = FALSE
    /\ wrapperMode = "none"
    /\ selectedLayer = 0
    /\ activeTab = "key"
    /\ hexInput = ""
    /\ lastOp = NoOp

InitCodec ==
    /\ fn = "init"
    /\ arg = NoArg
    /\ out = 0
    /\ kind = "none"
    /\ PopoverUnmounted
    /\ StripUnmounted
    /\ LzmaIdle
    /\ FavoriteIdle
    /\ CspIdle
    /\ DeviceIdle

ApplyClassify ==
    /\ fn = "init"
    /\ \E code \in Codes :
           /\ fn' = "classify"
           /\ arg' = [NoArg EXCEPT !.code = code]
           /\ out' = code
           /\ kind' = classify(code)
    /\ UNCHANGED codecRest

ApplyBuildModMask ==
    /\ fn = "init"
    /\ \E mask \in MaskInputs, key \in KeyInputs :
           /\ fn' = "buildModMaskKeycode"
           /\ arg' = [NoArg EXCEPT !.mask = mask, !.key = key]
           /\ out' = buildModMaskKeycode(mask, key)
           /\ kind' = classify(out')
    /\ UNCHANGED codecRest

ApplyBuildModTap ==
    /\ fn = "init"
    /\ \E mask \in MaskInputs, key \in KeyInputs :
           /\ fn' = "buildModTapKeycode"
           /\ arg' = [NoArg EXCEPT !.mask = mask, !.key = key]
           /\ out' = buildModTapKeycode(mask, key)
           /\ kind' = classify(out')
    /\ UNCHANGED codecRest

ApplyBuildLT ==
    /\ fn = "init"
    /\ \E layer \in LayerInputs, key \in KeyInputs :
           /\ fn' = "buildLTKeycode"
           /\ arg' = [NoArg EXCEPT !.layer = layer, !.key = key]
           /\ out' = buildLTKeycode(layer, key)
           /\ kind' = classify(out')
    /\ UNCHANGED codecRest

ApplyBuildSHT ==
    /\ fn = "init"
    /\ \E key \in KeyInputs :
           /\ fn' = "buildSHTKeycode"
           /\ arg' = [NoArg EXCEPT !.key = key]
           /\ out' = buildSHTKeycode(key)
           /\ kind' = classify(out')
    /\ UNCHANGED codecRest

ApplyBuildLM ==
    /\ fn = "init"
    /\ \E layer \in LayerInputs, mod \in MaskInputs :
           /\ fn' = "buildLMKeycode"
           /\ arg' = [NoArg EXCEPT !.layer = layer, !.mask = mod]
           /\ out' = buildLMKeycode(layer, mod)
           /\ kind' = classify(out')
    /\ UNCHANGED codecRest

ApplyResolve ==
    /\ fn = "init"
    /\ \E name \in NameInputs :
           /\ fn' = "resolve"
           /\ arg' = [NoArg EXCEPT !.name = name]
           /\ out' = resolve(name)
           /\ kind' = classify(out')
    /\ UNCHANGED codecRest

\* the wrappers and inner names composite names are made of
OuterInputs == {"LT", "LM", "SH_T", "LSFT"}

InnerInputs ==
    { "KC_A", "KC_B", "KC_SPACE", "KC_ENTER", "KC_TRNS", "KC_Z",
      "MOD_LSFT", "MOD_LCTL", "LT1(KC_A)" }

\* the composite name of a wrapper, a layer and an inner name
compositeName(outer, layer, inner) ==
    (IF outer \in {"LT", "LM"} THEN outer \o ToDec(layer) ELSE outer)
        \o "(" \o inner \o ")"

ApplyResolveComposite ==
    /\ fn = "init"
    /\ \E outer \in OuterInputs, layer \in 0 .. 15, inner \in InnerInputs :
           /\ outer \in {"SH_T", "LSFT"} => layer = 0
           /\ fn' = "resolveComposite"
           /\ arg' = [NoArg EXCEPT !.outer = outer, !.layer = layer,
                                   !.inner = inner,
                                   !.name = compositeName(outer, layer, inner)]
           /\ out' = resolveComposite(arg'.name)
           /\ kind' = classify(out')
    /\ UNCHANGED codecRest

NextCodec ==
    \/ ApplyResolveComposite
    \/ ApplyClassify
    \/ ApplyBuildModMask
    \/ ApplyBuildModTap
    \/ ApplyBuildLT
    \/ ApplyBuildSHT
    \/ ApplyBuildLM
    \/ ApplyResolve

SpecCodec == InitCodec /\ [][NextCodec]_vars

(***************************************************************************)
(* The key popover (KeyPopover with its children LayerSelector,            *)
(* ModifierCheckboxStrip and PopoverTabCode).                              *)
(*                                                                         *)
(* The parent owns the keycode: it sets the currentKeycode prop to every   *)
(* code the popover emits through onRawKeycodeSelect, and to the code of   *)
(* the keycode handed to onKeycodeSelect (in maskOnly mode: to the current *)
(* code with its inner byte replaced).  The optional onModMaskChange prop  *)
(* is not supplied, as in every render of the component in the sources.    *)
(* searchResetKey, which only remounts the search field, is left out.      *)
(***************************************************************************)
\* the codec variables while the popover alone is exercised
CodecIdle ==
    /\ fn = "init"
    /\ arg = NoArg
    /\ out = 0
    /\ kind = "none"

\* the keycodes the popover is opened on
InitKeycodes ==
    { \h0004, \h0204, \h6204, \h4104, \h5604, \h7002, \h7022, \h5104 }

initialWrapperModeIgnoreMaskOnly(mo, code) == classify(code)

\* wrapperMode's initializer
initialWrapperMode(mo, code) == IF mo THEN "none" ELSE classify(code)

\* selectedLayer's initializer
initialSelectedLayer(code) ==
    IF isLTKeycode(code) THEN extractLTLayer(code)
    ELSE IF isLMKeycode(code) THEN extractLMLayer(code)
    ELSE 0

showModeButtons == ~maskOnly

showModStrip == wrapperMode \in {"modMask", "modTap", "lm"}

showLayerSelector == wrapperMode \in {"lt", "lm"}

currentModMaskOf(mode, code) ==
    IF mode = "lm" THEN extractLMMod(code)
    ELSE IF mode \in {"modMask", "modTap"} THEN extractModMask(code)
    ELSE 0

currentModMask == currentModMaskOf(wrapperMode, currentKeycode)

Closed == lastOp.cb = "onClose"

InitPopover ==
    /\ currentKeycode \in InitKeycodes
    /\ maskOnly \in BOOLEAN
    /\ wrapperMode = initialWrapperMode(maskOnly, currentKeycode)
    /\ selectedLayer = initialSelectedLayer(currentKeycode)
    /\ activeTab = "key"
    /\ hexInput = ""
    /\ lastOp = [NoOp EXCEPT !.before = currentKeycode]
    /\ CodecIdle
    /\ StripUnmounted
    /\ LzmaIdle
    /\ FavoriteIdle
    /\ CspIdle
    /\ DeviceIdle

(***************************************************************************)
(* PopoverTabCode: the Code tab.  Its source is not part of the sources at *)
(* hand; it is modelled from the specification's inner-byte scenario and   *)
(* the popover's Code tab tests.                                           *)
(***************************************************************************)
maxDigits(mo) == IF mo THEN 2 ELSE 4

\* the text the Code tab shows when it opens
displayedHex(mo, code) ==
    IF mo THEN ToHex(And(code, \h00ff), 2) ELSE ToHex(code, 4)

isValidHex(mo, text) ==
    /\ Len(text) >= 1
    /\ Len(text) <= maxDigits(mo)
    /\ \A i \in 1 .. Len(text) : IsHexDigit(Char(text, i))

fullCodeInnerOnly(mo, code, text) == ParseHex(text)

\* the code an apply emits
fullCode(mo, code, text) ==
    IF mo THEN BitOr(And(code, \hff00), ParseHex(text)) ELSE ParseHex(text)

\* the codes serialize knows by name
NamedCodes ==
    { \h0004, \h0005, \h002c, \h4004, \h4104, \h4204, \h5104, \h512c, \h5105,
      \h5604, \h0204, \h2304, \h7000, \h7002 }

canApply(mo, code, text) ==
    /\ isValidHex(mo, text)
    /\ fullCode(mo, code, text) # code
    /\ fullCode(mo, code, text) \in NamedCodes

\* what the user types into the hex field
HexInputs ==
    { "0005", "7002", "4104", "0204", "FFFF", "2C", "2c", "5", "G1", "" }

(***************************************************************************)
(* ModifierCheckboxStrip.                                                  *)
(***************************************************************************)
RIGHT_BIT == Shl(1, 4)

MOD_BITS_MASK == \h0f

FULL_MASK == \h1f

MODS == 0 .. 3

isRight(modMask) == And(modMask, RIGHT_BIT) # 0

hasAnyMod(modMask) == And(modMask, MOD_BITS_MASK) # 0

toggleKeepSide(modMask, bit, right) ==
    LET toggled == BitXor(modMask, Shl(1, bit))
        withSide == IF right
                    THEN BitOr(toggled, RIGHT_BIT)
                    ELSE And(toggled, FULL_MASK - RIGHT_BIT)
    IN  And(withSide, FULL_MASK)

\* the mask toggle hands to onChange
toggle(modMask, bit, right) ==
    LET toggled == BitXor(modMask, Shl(1, bit))
        hasMods == And(toggled, MOD_BITS_MASK) # 0
        withSide == IF right /\ hasMods
                    THEN BitOr(toggled, RIGHT_BIT)
                    ELSE And(toggled, FULL_MASK - RIGHT_BIT)
    IN  And(withSide, FULL_MASK)

disabledSameSide(modMask, right) == hasAnyMod(modMask) /\ right = isRight(modMask)

disabled(modMask, right) == hasAnyMod(modMask) /\ right # isRight(modMask)

\* aria-pressed of the button of a bit on a side
active(modMask, bit, right) ==
    right = isRight(modMask) /\ And(modMask, Shl(1, bit)) # 0

(***************************************************************************)
(* The handlers of KeyPopover: the code each hands to onRawKeycodeSelect   *)
(* (NoEmit when it calls nothing).                                         *)
(***************************************************************************)
modeSwitchTarget(mode, newMode) == IF newMode = mode THEN "none" ELSE newMode

handleModeSwitchAlwaysMask(mode, code, layer, newMode) ==
    LET target == modeSwitchTarget(mode, newMode)
        basicKey == IF mode = "lm" THEN 0 ELSE extractBasicKey(code)
        mask == extractModMask(code)
    IN  IF target = "none" THEN (IF basicKey # code THEN basicKey ELSE NoEmit)
        ELSE IF target = "lt" THEN buildLTKeycode(layer, basicKey)
        ELSE IF target = "shT" THEN buildSHTKeycode(basicKey)
        ELSE IF target = "lm" THEN buildLMKeycode(layer, 0)
        ELSE IF target = "modTap" THEN buildModTapKeycode(mask, basicKey)
        ELSE buildModMaskKeycode(mask, basicKey)

handleModeSwitchSilentOff(mode, code, layer, newMode) ==
    LET target == modeSwitchTarget(mode, newMode)
        basicKey == IF mode = "lm" THEN 0 ELSE extractBasicKey(code)
        mask == IF mode \in {"modMask", "modTap"} THEN extractModMask(code) ELSE 0
    IN  IF target = "none" THEN NoEmit
        ELSE IF target = "lt" THEN buildLTKeycode(layer, basicKey)
        ELSE IF target = "shT" THEN buildSHTKeycode(basicKey)
        ELSE IF target = "lm" THEN buildLMKeycode(layer, 0)
        ELSE IF target = "modTap" THEN buildModTapKeycode(mask, basicKey)
        ELSE buildModMaskKeycode(mask, basicKey)

handleModeSwitch(mode, code, layer, newMode) ==
    LET target == modeSwitchTarget(mode, newMode)
        basicKey == IF mode = "lm" THEN 0 ELSE extractBasicKey(code)
        mask == IF mode \in {"modMask", "modTap"} THEN extractModMask(code) ELSE 0
    IN  IF target = "none" THEN (IF basicKey # code THEN basicKey ELSE NoEmit)
        ELSE IF target = "lt" THEN buildLTKeycode(layer, basicKey)
        ELSE IF target = "shT" THEN buildSHTKeycode(basicKey)
        ELSE IF target = "lm" THEN buildLMKeycode(layer, 0)
        ELSE IF target = "modTap" THEN buildModTapKeycode(mask, basicKey)
        ELSE buildModMaskKeycode(mask, basicKey)

handleLayerChangeResetKey(mode, code, layer) ==
    IF mode = "lt" THEN buildLTKeycode(layer, 0)
    ELSE IF mode = "lm" THEN buildLMKeycode(layer, currentModMaskOf(mode, code))
    ELSE NoEmit

handleLayerChange(mode, code, layer) ==
    IF mode = "lt" THEN buildLTKeycode(layer, extractBasicKey(code))
    ELSE IF mode = "lm" THEN buildLMKeycode(layer, currentModMaskOf(mode, code))
    ELSE NoEmit

handleModStripChange(mode, code, layer, newMask) ==
    IF mode = "lm" THEN buildLMKeycode(layer, newMask)
    ELSE IF mode = "modTap" THEN buildModTapKeycode(newMask, extractBasicKey(code))
    ELSE buildModMaskKeycode(newMask, extractBasicKey(code))

handleKeycodeSelectLayerZero(mode, code, layer, qmkId) ==
    IF mode = "lt" THEN buildLTKeycode(0, resolve(qmkId))
    ELSE IF mode = "shT" THEN buildSHTKeycode(resolve(qmkId))
    ELSE IF mode = "lm" THEN buildLMKeycode(layer, resolve(qmkId))
    ELSE IF mode = "modTap"
         THEN buildModTapKeycode(currentModMaskOf(mode, code), resolve(qmkId))
    ELSE IF mode = "modMask"
         THEN buildModMaskKeycode(currentModMaskOf(mode, code), resolve(qmkId))
    ELSE NoEmit

handleKeycodeSelect(mode, code, layer, qmkId) ==
    IF mode = "lt" THEN buildLTKeycode(layer, resolve(qmkId))
    ELSE IF mode = "shT" THEN buildSHTKeycode(resolve(qmkId))
    ELSE IF mode = "lm" THEN buildLMKeycode(layer, resolve(qmkId))
    ELSE IF mode = "modTap"
         THEN buildModTapKeycode(currentModMaskOf(mode, code), resolve(qmkId))
    ELSE IF mode = "modMask"
         THEN buildModMaskKeycode(currentModMaskOf(mode, code), resolve(qmkId))
    ELSE NoEmit

\* the parent's assignment of a keycode selected in mode none
parentAssign(mo, code, qmkId) ==
    IF mo THEN BitOr(And(code, \hff00), And(resolve(qmkId), \h00ff))
    ELSE resolve(qmkId)

\* the record of a handler run that handed `code` to onRawKeycodeSelect
\* (or called nothing, for NoEmit)
Ran(op, target, n, name, code) ==
    [op |-> op, target |-> target, n |-> n, name |-> name,
     before |-> currentKeycode,
     cb |-> IF code = NoEmit THEN "none" ELSE "onRawKeycodeSelect",
     code |-> code]

\* the parent's reaction to onRawKeycodeSelect(code)
Emit(code) ==
    currentKeycode' = IF code = NoEmit THEN currentKeycode ELSE code

SetActiveTab ==
    /\ ~Closed
    /\ \E tab \in {"key", "code"} :
           /\ tab # activeTab
           /\ activeTab' = tab
           /\ hexInput' = IF tab = "code"
                          THEN displayedHex(maskOnly, currentKeycode) ELSE ""
           /\ lastOp' = Ran("setActiveTab", "none", 0, tab, NoEmit)
    /\ UNCHANGED <<currentKeycode, maskOnly, wrapperMode, selectedLayer, popRest>>

ModeSwitch ==
    /\ ~Closed
    /\ activeTab = "key"
    /\ showModeButtons
    /\ \E newMode \in WrapperModes \ {"none"} :
           LET code == handleModeSwitch(wrapperMode, currentKeycode,
                                        selectedLayer, newMode)
               target == modeSwitchTarget(wrapperMode, newMode)
           IN  /\ Emit(code)
               /\ wrapperMode' = target
               /\ lastOp' = Ran("modeSwitch", target, 0, wrapperMode, code)
    /\ UNCHANGED <<maskOnly, selectedLayer, activeTab, hexInput, popRest>>

LayerChange ==
    /\ ~Closed
    /\ activeTab = "key"
    /\ showLayerSelector
    /\ \E layer \in 0 .. Layers - 1 :
           LET code == handleLayerChange(wrapperMode, currentKeycode, layer)
           IN  /\ selectedLayer' = layer
               /\ Emit(code)
               /\ lastOp' = Ran("layerChange", wrapperMode, layer, "", code)
    /\ UNCHANGED <<maskOnly, wrapperMode, activeTab, hexInput, popRest>>

ModToggle ==
    /\ ~Closed
    /\ activeTab = "key"
    /\ showModStrip
    /\ \E bit \in MODS, right \in BOOLEAN :
           /\ ~disabled(currentModMask, right)
           /\ LET newMask == toggle(currentModMask, bit, right)
                  code == handleModStripChange(wrapperMode, currentKeycode,
                                               selectedLayer, newMask)
              IN  /\ Emit(code)
                  /\ lastOp' = Ran("modStripChange", wrapperMode, newMask, "", code)
    /\ UNCHANGED <<maskOnly, wrapperMode, selectedLayer, activeTab, hexInput, popRest>>

KeycodeSelect ==
    /\ ~Closed
    /\ activeTab = "key"
    /\ wrapperMode # "lm"
    /\ \E kc \in mockKeycodes :
           LET code == handleKeycodeSelect(wrapperMode, currentKeycode,
                                           selectedLayer, kc.qmkId)
           IN  IF wrapperMode = "none"
               THEN /\ currentKeycode' = parentAssign(maskOnly, currentKeycode, kc.qmkId)
                    /\ lastOp' = [Ran("keycodeSelect", wrapperMode, 0, kc.qmkId, NoEmit)
                                     EXCEPT !.cb = "onKeycodeSelect"]
               ELSE /\ Emit(code)
                    /\ lastOp' = Ran("keycodeSelect", wrapperMode, 0, kc.qmkId, code)
    /\ UNCHANGED <<maskOnly, wrapperMode, selectedLayer, activeTab, hexInput, popRest>>

ChangeHexInput ==
    /\ ~Closed
    /\ activeTab = "code"
    /\ \E text \in HexInputs :
           /\ text # hexInput
           /\ hexInput' = text
           /\ lastOp' = Ran("changeHexInput", "none", 0, text, NoEmit)
    /\ UNCHANGED <<currentKeycode, maskOnly, wrapperMode, selectedLayer, activeTab, popRest>>

ApplyCode ==
    /\ ~Closed
    /\ activeTab = "code"
    /\ canApply(maskOnly, currentKeycode, hexInput)
    /\ LET code == fullCode(maskOnly, currentKeycode, hexInput)
       IN  /\ Emit(code)
           /\ lastOp' = Ran("applyCode", "none", 0, hexInput, code)
    /\ UNCHANGED <<maskOnly, wrapperMode, selectedLayer, activeTab, hexInput, popRest>>

Close ==
    /\ ~Closed
    /\ lastOp' = [Ran("close", "none", 0, "", NoEmit) EXCEPT !.cb = "onClose"]
    /\ UNCHANGED <<currentKeycode, maskOnly, wrapperMode, selectedLayer, activeTab,
                   hexInput, popRest>>

NextPopover ==
    \/ SetActiveTab
    \/ ModeSwitch
    \/ LayerChange
    \/ ModToggle
    \/ KeycodeSelect
    \/ ChangeHexInput
    \/ ApplyCode
    \/ Close

SpecPopover == InitPopover /\ [][NextPopover]_vars

(***************************************************************************)
(* ModifierCheckboxStrip on its own: rendered with a modMask prop, one of  *)
(* its eight buttons is clicked.  A disabled button fires no click.        *)
(***************************************************************************)
\* the masks the strip is rendered with: the 5-bit masks and some above
MaskProps == 0 .. (31 + Over)

InitStrip ==
    /\ modMaskProp \in MaskProps
    /\ lastClick = NoClick
    /\ CodecIdle
    /\ PopoverUnmounted
    /\ LzmaIdle
    /\ FavoriteIdle
    /\ CspIdle
    /\ DeviceIdle

ClickModifier ==
    /\ lastClick.op = "none"
    /\ \E bit \in MODS, right \in BOOLEAN :
           lastClick' =
               [op |-> "click", bit |-> bit, right |-> right,
                before |-> modMaskProp,
                called |-> ~disabled(modMaskProp, right),
                value |-> IF disabled(modMaskProp, right) THEN 0
                          ELSE toggle(modMaskProp, bit, right)]
    /\ UNCHANGED <<modMaskProp, stripRest>>

NextStrip == ClickModifier

SpecStrip == InitStrip /\ [][NextStrip]_vars

(***************************************************************************)
(* LZMA / XZ decompression in the main process (src/unnamed/part_004):     *)
(* the LZMA_DECOMPRESS handler, decompressXz with the events of its child  *)
(* process and its timer, and decompressLzma with the library's callback.  *)
(*                                                                         *)
(* A request's data is its type, its length and its first six elements     *)
(* (bytes, as the renderer sends them); a stdout chunk is a tag standing   *)
(* for its content and its length in bytes, and a string is the tags it is *)
(* made of and its UTF-8 length.  The child process is Node's: stdout      *)
(* emits 'data' only before 'close', 'close' comes once, 'error' at most   *)
(* once; a cleared timer does not fire.                                    *)
(***************************************************************************)
MAX_COMPRESSED_SIZE == 1 * 1024 * 1024

MAX_DECOMPRESSED_SIZE == 10 * 1024 * 1024

XZ_MAGIC == << \hfd, \h37, \h7a, \h58, \h5a, \h00 >>

\* the stdout chunks one run of the child emits at most
MaxChunks == 3

hasXzMagic(buf) ==
    IF buf.length < Len(XZ_MAGIC) THEN FALSE
    ELSE \A i \in 1 .. Len(XZ_MAGIC) : buf.head[i] = XZ_MAGIC[i]

\* !data || !Array.isArray(data) || data.length === 0
isEmptyInput(d) == d.type # "array" \/ d.length = 0

exceedsCompressedLimitInclusive(d) == d.length >= MAX_COMPRESSED_SIZE

\* data.length > MAX_COMPRESSED_SIZE
exceedsCompressedLimit(d) == d.length > MAX_COMPRESSED_SIZE

exceedsLimitOffByOne(size) == size > MAX_DECOMPRESSED_SIZE + 1

\* totalSize > MAX_DECOMPRESSED_SIZE
exceedsLimit(size) == size > MAX_DECOMPRESSED_SIZE

\* Buffer.concat(chunks).toString('utf-8')
RECURSIVE concatText(_)
concatText(cs) ==
    IF cs = <<>> THEN "" ELSE concatText(SubSeq(cs, 1, Len(cs) - 1)) \o cs[Len(cs)].text

RECURSIVE concatSize(_)
concatSize(cs) ==
    IF cs = <<>> THEN 0 ELSE concatSize(SubSeq(cs, 1, Len(cs) - 1)) + cs[Len(cs)].length

resolvedNull == [state |-> "resolved", null |-> TRUE, text |-> "", size |-> 0]

resolvedString(text, size) ==
    [state |-> "resolved", null |-> FALSE, text |-> text, size |-> size]

pendingPromise == [NoPromise EXCEPT !.state = "pending"]

settleAlways(value) ==
    /\ settled' = TRUE
    /\ timer' = IF timer = "armed" THEN "cleared" ELSE timer
    /\ promise' = value

\* settle(value): the first call resolves the promise and clears the timer
settle(value) ==
    IF settled
    THEN UNCHANGED <<settled, promise, timer>>
    ELSE /\ settled' = TRUE
         /\ timer' = IF timer = "armed" THEN "cleared" ELSE timer
         /\ promise' = value

\* the first six elements of the requests
HeadPatterns ==
    { XZ_MAGIC, << \h5d, \h00, \h00, \h01, \h00, \h00 >> }
    \cup { [XZ_MAGIC EXCEPT ![i] = \h5d] : i \in 1 .. Len(XZ_MAGIC) }

DataLengths ==
    { 0, 1, Len(XZ_MAGIC) - 1, Len(XZ_MAGIC), MAX_COMPRESSED_SIZE,
      MAX_COMPRESSED_SIZE + 1 }

headOf(pattern, length) ==
    SubSeq(pattern, 1, IF length < Len(pattern) THEN length ELSE Len(pattern))

\* null, undefined, a string, a typed array (none is an Array), and arrays
DataInputs ==
    { [type |-> t, length |-> 0, head |-> <<>>] : t \in {"null", "undefined"} }
    \cup { [type |-> "string", length |-> 9, head |-> <<>>],
           [type |-> "uint8array", length |-> 9, head |-> XZ_MAGIC] }
    \cup { [type |-> "array", length |-> n, head |-> headOf(pat, n)] :
               n \in DataLengths, pat \in HeadPatterns }

HalfSize == MAX_DECOMPRESSED_SIZE \div 2

ChunkInputs ==
    { [text |-> t, length |-> n] :
          t \in {"a", "b"},
          n \in {1, HalfSize, HalfSize + 1, MAX_DECOMPRESSED_SIZE + 1} }

\* what lzmaModule.decompress hands to its callback: an error (with or
\* without a result), null, a string, or a Uint8Array; the bytes of an array
\* are valid UTF-8 (utf8 = size) or all invalid (each decodes to U+FFFD,
\* three bytes of UTF-8)
LzmaResults ==
    { [NoLibResult EXCEPT !.outcome = "callback", !.error = TRUE],
      [NoLibResult EXCEPT !.outcome = "callback", !.error = TRUE,
                          !.kind = "string", !.text = "ok", !.size = 2, !.utf8 = 2],
      [NoLibResult EXCEPT !.outcome = "callback"] }
    \cup { [NoLibResult EXCEPT !.outcome = "callback", !.kind = "string",
                               !.text = "ok", !.size = n, !.utf8 = n] :
               n \in {0, 2, MAX_DECOMPRESSED_SIZE, MAX_DECOMPRESSED_SIZE + 1} }
    \cup { [NoLibResult EXCEPT !.outcome = "callback", !.kind = "bytes",
                               !.text = "ok", !.size = n, !.utf8 = f * n] :
               n \in {2, HalfSize, MAX_DECOMPRESSED_SIZE, MAX_DECOMPRESSED_SIZE + 1},
               f \in {1, 3} }

utf8ByteLengthOfInput(r) == r.size

\* Buffer.byteLength(str, 'utf-8') of the string made of the result
utf8ByteLength(r) == r.utf8

InitLzma ==
    /\ LzmaIdle
    /\ CodecIdle
    /\ PopoverUnmounted
    /\ StripUnmounted
    /\ FavoriteIdle
    /\ CspIdle
    /\ DeviceIdle

\* the handler of IpcChannels.LZMA_DECOMPRESS, with the synchronous part of
\* decompressXz (spawn, timer, stdin.end) or decompressLzma (the library
\* call, which may throw)
HandleDecompress ==
    /\ route = "idle"
    /\ \E d \in DataInputs, throws \in BOOLEAN :
           /\ data' = d
           /\ lastEvent' = "invoke"
           /\ IF isEmptyInput(d) \/ exceedsCompressedLimit(d)
              THEN /\ ~throws
                   /\ route' = "rejected"
                   /\ promise' = resolvedNull
                   /\ UNCHANGED <<child, timer, lzmaCalled, libResult>>
              ELSE IF hasXzMagic(d)
              THEN /\ ~throws
                   /\ route' = "xz"
                   /\ child' = [NoChild EXCEPT !.spawned = TRUE, !.stdinEnded = TRUE]
                   /\ timer' = "armed"
                   /\ promise' = pendingPromise
                   /\ UNCHANGED <<lzmaCalled, libResult>>
              ELSE /\ route' = "lzma"
                   /\ lzmaCalled' = TRUE
                   /\ promise' = IF throws THEN resolvedNull ELSE pendingPromise
                   /\ libResult' = IF throws
                                   THEN [NoLibResult EXCEPT !.outcome = "throw"]
                                   ELSE NoLibResult
                   /\ UNCHANGED <<child, timer>>
    /\ UNCHANGED <<chunks, arrived, totalSize, settled, lzmaRest>>

\* child.stdout.on('data')
XzData ==
    /\ route = "xz"
    /\ ~child.closed
    /\ Len(arrived) < MaxChunks
    /\ \E chunk \in ChunkInputs :
           /\ totalSize' = totalSize + chunk.length
           /\ arrived' = Append(arrived, chunk)
           /\ IF exceedsLimit(totalSize')
              THEN /\ child' = [child EXCEPT !.kills = @ + 1]
                   /\ settle(resolvedNull)
                   /\ UNCHANGED chunks
              ELSE /\ chunks' = Append(chunks, chunk)
                   /\ UNCHANGED <<child, settled, promise, timer>>
    /\ lastEvent' = "data"
    /\ UNCHANGED <<data, route, lzmaCalled, libResult, lzmaRest>>

\* child.on('close'); Buffer.concat of at most MAX_DECOMPRESSED_SIZE bytes
\* does not throw, so the catch branch is never taken
XzClose ==
    /\ route = "xz"
    /\ ~child.closed
    /\ \E code \in {0, 1, NullCode} :
           /\ child' = [child EXCEPT !.closed = TRUE, !.code = code]
           /\ IF exceedsLimit(totalSize) THEN settle(resolvedNull)
              ELSE IF code # 0 THEN settle(resolvedNull)
              ELSE settle(resolvedString(concatText(chunks), concatSize(chunks)))
    /\ lastEvent' = "close"
    /\ UNCHANGED <<data, route, chunks, arrived, totalSize, lzmaCalled, libResult,
                   lzmaRest>>

\* child.on('error')
XzError ==
    /\ route = "xz"
    /\ ~child.errored
    /\ child' = [child EXCEPT !.errored = TRUE]
    /\ settle(resolvedNull)
    /\ lastEvent' = "error"
    /\ UNCHANGED <<data, route, chunks, arrived, totalSize, lzmaCalled, libResult,
                   lzmaRest>>

XzTimeoutKillOnly ==
    /\ route = "xz"
    /\ timer = "armed"
    /\ child' = [child EXCEPT !.kills = @ + 1]
    /\ timer' = "fired"
    /\ lastEvent' = "timeout"
    /\ UNCHANGED <<data, route, promise, settled, chunks, arrived, totalSize,
                   lzmaCalled, libResult, lzmaRest>>

\* the setTimeout callback
XzTimeout ==
    /\ route = "xz"
    /\ timer = "armed"
    /\ child' = [child EXCEPT !.kills = @ + 1]
    /\ settled' = TRUE
    /\ timer' = "fired"
    /\ promise' = IF settled THEN promise ELSE resolvedNull
    /\ lastEvent' = "timeout"
    /\ UNCHANGED <<data, route, chunks, arrived, totalSize, lzmaCalled, libResult,
                   lzmaRest>>

\* the callback handed to lzmaModule.decompress
LzmaCallback ==
    /\ route = "lzma"
    /\ promise.state = "pending"
    /\ \E r \in LzmaResults :
           /\ libResult' = r
           /\ promise' =
                  IF r.error THEN resolvedNull
                  ELSE IF r.kind = "null" THEN resolvedNull
                  ELSE IF exceedsLimit(utf8ByteLength(r)) THEN resolvedNull
                  ELSE resolvedString(r.text, utf8ByteLength(r))
    /\ lastEvent' = "callback"
    /\ UNCHANGED <<data, route, chunks, arrived, totalSize, settled, timer, child,
                   lzmaCalled, lzmaRest>>

NextLzma ==
    \/ HandleDecompress
    \/ XzData
    \/ XzClose
    \/ XzError
    \/ XzTimeout
    \/ LzmaCallback

SpecLzma == InitLzma /\ [][NextLzma]_vars

\* the event loop runs an armed timer's callback when its time has come
SpecLzmaFair == SpecLzma /\ WF_vars(XzTimeout)

(***************************************************************************)
(* useFavoriteManage (renderer/hooks/useFavoriteManage.ts).                *)
(*                                                                         *)
(* Every function of the hook is asynchronous: a call runs up to its await *)
(* of window.vialAPI and resumes when the store answers.  Up to MaxCalls   *)
(* calls are in flight at once; a slot keeps the record of its last call   *)
(* until the next call is made in it.  The store answers as it likes: it   *)
(* reports success or failure, or the call throws (or rejects).  The       *)
(* favoriteType the hook is rendered with does not change.                 *)
(***************************************************************************)
FavoriteTypes == {"tapDance", "macro"}

\* the lists favoriteStoreList answers with
EntryLists == {<<>>, <<"e1">>}

\* favoriteStoreRename, favoriteStoreDelete, favoriteStoreExport
StoreResults ==
    { StoreResult(o, "", 0, 0) : o \in {"success", "failure", "throw"} }

\* favoriteStoreImport; the error "other" is any error but 'cancelled'
ImportResults ==
    { StoreResult("success", "", 2, 0), StoreResult("success", "", 1, 1),
      StoreResult("failure", "cancelled", 0, 0),
      StoreResult("failure", "other", 0, 0),
      StoreResult("throw", "", 0, 0) }

\* favoriteStoreList; a successful result may lack entries
ListResults ==
    { [StoreResult("success", "", 0, 0) EXCEPT !.hasEntries = TRUE,
                                               !.entries = l] :
        l \in EntryLists }
    \cup StoreResults

inFlight(c) == c.pc \in {"store", "list"}

free(c) == c.pc \in {"idle", "done"}

\* the slots an importFavorites call is in flight in
importsInFlight ==
    { c \in Slots : calls[c].op = "importFavorites" /\ inFlight(calls[c]) }

\* the slots an exportAll or exportEntry call is in flight in
exportsInFlight ==
    { c \in Slots : calls[c].op \in {"exportAll", "exportEntry"}
                    /\ inFlight(calls[c]) }

\* a call up to its await of the store
awaitStore(op) == [NoCall EXCEPT !.op = op, !.pc = "store"]

\* a call up to the await of favoriteStoreList in refreshEntries
awaitList(c) ==
    [c EXCEPT !.pc = "list", !.listed = TRUE, !.listArg = favoriteType]

returned(c, value) == [c EXCEPT !.pc = "done", !.ret = value]

InitFavorite ==
    /\ favoriteType \in FavoriteTypes
    /\ entries = <<>>
    /\ exporting = FALSE
    /\ importing = FALSE
    /\ importResult = NoImportResult
    /\ calls = [c \in Slots |-> NoCall]
    /\ CodecIdle
    /\ PopoverUnmounted
    /\ StripUnmounted
    /\ LzmaIdle
    /\ CspIdle
    /\ DeviceIdle

\* refreshEntries called by the component, up to its await
refreshEntries ==
    /\ \E s \in Slots :
           /\ free(calls[s])
           /\ calls' = [calls EXCEPT ![s] = awaitList(awaitStore("refreshEntries"))]
    /\ UNCHANGED <<favoriteType, entries, exporting, importing, importResult,
                   favRest>>

\* renameEntry or deleteEntry, up to the await of the store
renameEntry ==
    /\ \E s \in Slots :
           /\ free(calls[s])
           /\ calls' = [calls EXCEPT ![s] = awaitStore("renameEntry")]
    /\ UNCHANGED <<favoriteType, entries, exporting, importing, importResult,
                   favRest>>

deleteEntry ==
    /\ \E s \in Slots :
           /\ free(calls[s])
           /\ calls' = [calls EXCEPT ![s] = awaitStore("deleteEntry")]
    /\ UNCHANGED <<favoriteType, entries, exporting, importing, importResult,
                   favRest>>

\* exportAll and exportEntry: doExport, up to the await of the store
doExport ==
    /\ \E s \in Slots, op \in {"exportAll", "exportEntry"} :
           /\ free(calls[s])
           /\ calls' = [calls EXCEPT ![s] = awaitStore(op)]
    /\ exporting' = TRUE
    /\ UNCHANGED <<favoriteType, entries, importing, importResult, favRest>>

\* importFavorites, up to the await of the store
importFavorites ==
    /\ \E s \in Slots :
           /\ free(calls[s])
           /\ calls' =
                  [c \in Slots |->
                      IF c = s
                      THEN [awaitStore("importFavorites")
                                EXCEPT !.solo = (importsInFlight = {})]
                      ELSE IF c \in importsInFlight
                      THEN [calls[c] EXCEPT !.solo = FALSE]
                      ELSE calls[c]]
    /\ importResult' = NoImportResult
    /\ importing' = TRUE
    /\ UNCHANGED <<favoriteType, entries, exporting, favRest>>

editResumesAlwaysRefresh(s, r) ==
    /\ calls[s].op \in {"renameEntry", "deleteEntry"}
    /\ calls' = [calls EXCEPT ![s] = awaitList([calls[s] EXCEPT !.result = r])]
    /\ UNCHANGED <<entries, exporting, importing, importResult>>

\* renameEntry and deleteEntry resumed by the store's answer
editResumes(s, r) ==
    /\ calls[s].op \in {"renameEntry", "deleteEntry"}
    /\ calls' =
           [calls EXCEPT ![s] =
               IF r.outcome = "success"
               THEN awaitList([calls[s] EXCEPT !.result = r])
               ELSE returned([calls[s] EXCEPT !.result = r], "false")]
    /\ UNCHANGED <<entries, exporting, importing, importResult>>

\* doExport resumed by the store's answer
exportResumes(s, r) ==
    /\ calls[s].op \in {"exportAll", "exportEntry"}
    /\ calls' =
           [calls EXCEPT ![s] =
               returned(calls[s],
                        IF r.outcome = "success" THEN "true" ELSE "false")]
    /\ exporting' = FALSE
    /\ UNCHANGED <<entries, importing, importResult>>

importResumesZeroOnCancel(s, r) ==
    /\ calls[s].op = "importFavorites"
    /\ IF r.outcome = "success"
       THEN /\ importResult' =
                   [null |-> FALSE, imported |-> r.imported,
                    skipped |-> r.skipped]
            /\ calls' = [calls EXCEPT ![s] =
                            awaitList([calls[s] EXCEPT !.result = r,
                                                       !.solo = FALSE])]
            /\ UNCHANGED importing
       ELSE /\ importResult' =
                   IF r.outcome = "failure"
                   THEN [null |-> FALSE, imported |-> 0, skipped |-> 0]
                   ELSE importResult
            /\ calls' = [calls EXCEPT ![s] =
                            returned([calls[s] EXCEPT !.result = r,
                                                      !.solo = FALSE], "false")]
            /\ importing' = FALSE
    /\ UNCHANGED <<entries, exporting>>

\* importFavorites resumed by the store's answer
importResumes(s, r) ==
    /\ calls[s].op = "importFavorites"
    /\ IF r.outcome = "success"
       THEN /\ importResult' =
                   [null |-> FALSE, imported |-> r.imported,
                    skipped |-> r.skipped]
            /\ calls' = [calls EXCEPT ![s] =
                            awaitList([calls[s] EXCEPT !.result = r,
                                                       !.solo = FALSE])]
            /\ UNCHANGED importing
       ELSE /\ importResult' =
                   IF r.outcome = "failure" /\ r.error # "cancelled"
                   THEN [null |-> FALSE, imported |-> 0, skipped |-> 0]
                   ELSE importResult
            /\ calls' = [calls EXCEPT ![s] =
                            returned([calls[s] EXCEPT !.result = r,
                                                      !.solo = FALSE], "false")]
            /\ importing' = FALSE
    /\ UNCHANGED <<entries, exporting>>

\* the store answers favoriteStoreRename, Delete, Export or Import
StoreAnswers ==
    /\ \E s \in Slots :
           /\ calls[s].pc = "store"
           /\ \E r \in IF calls[s].op = "importFavorites" THEN ImportResults
                       ELSE StoreResults :
                  \/ editResumes(s, r)
                  \/ exportResumes(s, r)
                  \/ importResumes(s, r)
    /\ UNCHANGED <<favoriteType, favRest>>

\* the store answers favoriteStoreList: refreshEntries resumes, and with it
\* the renameEntry, deleteEntry or importFavorites call that awaits it
ListAnswers ==
    /\ \E s \in Slots :
           /\ calls[s].pc = "list"
           /\ \E r \in ListResults :
                  entries' = IF r.outcome = "success" /\ r.hasEntries
                             THEN r.entries ELSE entries
           /\ calls' =
                  [calls EXCEPT ![s] =
                      returned(calls[s],
                               IF calls[s].op = "refreshEntries" THEN "void"
                               ELSE "true")]
           /\ importing' =
                  IF calls[s].op = "importFavorites"
                  THEN FALSE
                  ELSE importing
    /\ UNCHANGED <<favoriteType, exporting, importResult, favRest>>

NextFavorite ==
    \/ refreshEntries
    \/ renameEntry
    \/ deleteEntry
    \/ doExport
    \/ importFavorites
    \/ StoreAnswers
    \/ ListAnswers

SpecFavorite == InitFavorite /\ [][NextFavorite]_vars

(***************************************************************************)
(* The Content-Security-Policy builder (src/unnamed/part_003).             *)
(*                                                                         *)
(* buildCsp is a pure function of isDev.  The policy it returns is read    *)
(* the way a browser and the test suite read it: split at "; " into        *)
(* directives, each split at blanks into its name and its sources.         *)
(***************************************************************************)
BASE_DIRECTIVES ==
    << "default-src 'self'",
       "img-src 'self' data:",
       "font-src 'self'",
       "base-uri 'self'",
       "object-src 'none'",
       "frame-src 'none'",
       "frame-ancestors 'none'",
       "form-action 'self'" >>

\* Array.prototype.join
RECURSIVE join(_, _)
join(list, sep) ==
    IF Len(list) = 0 THEN ""
    ELSE IF Len(list) = 1 THEN list[1]
    ELSE list[1] \o sep \o join(Tail(list), sep)

\* String.prototype.indexOf, from 1; 0 when the text lacks the part
indexOf(text, part) ==
    LET at == { i \in 1 .. (Len(text) - Len(part) + 1) :
                  SubSeq(text, i, i + Len(part) - 1) = part }
    IN  IF at = {} THEN 0 ELSE CHOOSE i \in at : \A j \in at : i <= j

\* String.prototype.includes (toContain of a string)
contains(text, part) == indexOf(text, part) # 0

\* String.prototype.split with a separator that is not empty
RECURSIVE split(_, _)
split(text, sep) ==
    LET i == indexOf(text, sep)
    IN  IF i = 0 THEN << text >>
        ELSE << SubSeq(text, 1, i - 1) >>
                 \o split(SubSeq(text, i + Len(sep), Len(text)), sep)

buildCspInlineAlways(dev) ==
    LET inline == " 'unsafe-inline'"
        wsConnect == IF dev THEN " ws://localhost:*" ELSE ""
        directives ==
            BASE_DIRECTIVES
                \o << "script-src 'self'" \o inline,
                      "style-src 'self'" \o inline,
                      "connect-src 'self'" \o wsConnect >>
    IN  join(directives, "; ")

buildCsp(dev) ==
    LET inline == IF dev THEN " 'unsafe-inline'" ELSE ""
        wsConnect == IF dev THEN " ws://localhost:*" ELSE ""
        directives ==
            BASE_DIRECTIVES
                \o << "script-src 'self'" \o inline,
                      "style-src 'self'" \o inline,
                      "connect-src 'self'" \o wsConnect >>
    IN  join(directives, "; ")

\* the directives of a policy, and the name of each
directivesOf(policy) == split(policy, "; ")

keyOf(directive) == split(directive, " ")[1]

keysOf(policy) ==
    LET ds == directivesOf(policy)
    IN  [i \in 1 .. Len(ds) |-> keyOf(ds[i])]

\* the set of the elements of a sequence
Range(list) == { list[i] : i \in 1 .. Len(list) }

\* the sources the policy lists for a directive name
sourcesOf(policy, name) ==
    LET ds == directivesOf(policy)
    IN  UNION { LET words == split(ds[i], " ")
                IN  IF words[1] = name THEN Range(Tail(words)) ELSE {} :
                  i \in 1 .. Len(ds) }

\* the directive names and the sources looked up
DirectiveNames ==
    { "default-src", "img-src", "font-src", "base-uri", "object-src",
      "frame-src", "frame-ancestors", "form-action", "script-src",
      "style-src", "connect-src", "worker-src", "media-src" }

Sources ==
    { "'self'", "'none'", "data:", "'unsafe-inline'", "'unsafe-eval'",
      "ws://localhost:*", "*", "https:" }

InitCsp ==
    /\ CspIdle
    /\ CodecIdle
    /\ PopoverUnmounted
    /\ StripUnmounted
    /\ LzmaIdle
    /\ FavoriteIdle
    /\ DeviceIdle

\* the main process builds the policy, for a packaged app or in development
ApplyBuildCsp ==
    /\ csp = ""
    /\ \E dev \in BOOLEAN :
           /\ isDev' = dev
           /\ csp' = buildCsp(dev)
    /\ UNCHANGED <<cspQuery, cspAnswer, cspRest>>

\* the policy is asked whether a directive allows a source
LookUp ==
    /\ csp # ""
    /\ \E name \in DirectiveNames, source \in Sources :
           /\ cspQuery' = [name |-> name, source |-> source]
           /\ cspAnswer' =
                  [asked |-> TRUE,
                   present |-> name \in Range(keysOf(csp)),
                   has |-> source \in sourcesOf(csp, name)]
    /\ UNCHANGED <<isDev, csp, cspRest>>

NextCsp ==
    \/ ApplyBuildCsp
    \/ LookUp

SpecCsp == InitCsp /\ [][NextCsp]_vars

(***************************************************************************)
(* useDeviceConnection (src/unnamed/part_001).                             *)
(*                                                                         *)
(* The hook is mounted: its effects have run, so the first refreshDevices  *)
(* call is in flight and the timer of the first poll is armed.  Every      *)
(* asynchronous function runs up to its await of window.vialAPI and        *)
(* resumes when the main process answers; an answer may never come.  One   *)
(* connectDevice, one disconnectDevice and one refreshDevices call are in  *)
(* flight at most.  A setState is followed by its render and by the effect *)
(* that copies state.connectedDevice and state.isDummy to the refs when    *)
(* either changed.  The hook is not mounted again once unmounted.          *)
(***************************************************************************)
\* dummyDevice of connectDummy, and the keyboard the main process lists
Dummy == "Dummy_Keyboard"

Keyboard == "keyboard"

\* the device lists listDevices answers with
DeviceLists == {{}, {Keyboard}}

\* the calls a poll awaits under withTimeout
TimedCalls == {"isDeviceOpen", "listDevices"}

DevEvent(op, closeDevice) == [NoDevEvent EXCEPT !.op = op, !.closeDevice = closeDevice]

InitDevice ==
    /\ state = InitialState
    /\ mountedRef = TRUE
    /\ connectedDeviceRef = NoDevice
    /\ isDummyRef = FALSE
    /\ cancelled = FALSE
    /\ timerId = "armed"
    /\ polls = <<>>
    /\ opening = NoDevice
    /\ closing = FALSE
    /\ refreshing = TRUE
    /\ devEvent = DevEvent("mount", FALSE)
    /\ CodecIdle
    /\ PopoverUnmounted
    /\ StripUnmounted
    /\ LzmaIdle
    /\ FavoriteIdle
    /\ CspIdle

\* setState while mounted, the render and the effect that keeps the refs in
\* sync with the state; refDevice and refDummy are the refs as the handler
\* leaves them
setState(next, refDevice, refDummy) ==
    LET changed == \/ next.connectedDevice # state.connectedDevice
                   \/ next.isDummy # state.isDummy
    IN  IF mountedRef
        THEN /\ state' = next
             /\ connectedDeviceRef' =
                    IF changed THEN next.connectedDevice ELSE refDevice
             /\ isDummyRef' = IF changed THEN next.isDummy ELSE refDummy
        ELSE /\ state' = state
             /\ connectedDeviceRef' = refDevice
             /\ isDummyRef' = refDummy

removeAt(list, i) == SubSeq(list, 1, i - 1) \o SubSeq(list, i + 1, Len(list))

\* the end of poll: the next poll is scheduled unless the effect was
\* cleaned up
scheduleNext == IF cancelled THEN timerId ELSE "armed"

timerStaysArmed == "armed"

\* the timer of setTimeout once its callback runs
timerRan == "fired"

\* the timer's callback poll, up to its first await (or to its end, for a
\* dummy keyboard)
poll ==
    /\ timerId = "armed"
    /\ IF ~mountedRef \/ cancelled
       THEN /\ timerId' = timerRan
            /\ UNCHANGED polls
       ELSE IF connectedDeviceRef # NoDevice /\ isDummyRef
       THEN /\ timerId' = scheduleNext
            /\ UNCHANGED polls
       ELSE /\ timerId' = timerRan
            /\ polls' = Append(polls,
                               IF connectedDeviceRef # NoDevice
                               THEN "isDeviceOpen" ELSE "listDevices")
    /\ devEvent' = DevEvent("poll", FALSE)
    /\ UNCHANGED <<state, mountedRef, connectedDeviceRef, isDummyRef, cancelled,
                   opening, closing, refreshing, devRest>>

\* a poll once isDeviceOpen gave open (FALSE also for a rejection or the
\* timeout): it ends, or goes on to handleDisconnect up to its await
afterIsDeviceOpen(i, open, event) ==
    IF open
    THEN /\ polls' = removeAt(polls, i)
         /\ timerId' = scheduleNext
         /\ devEvent' = DevEvent(event, FALSE)
    ELSE /\ polls' = [polls EXCEPT ![i] = "closeDevice"]
         /\ timerId' = timerId
         /\ devEvent' = DevEvent(event, TRUE)

\* the main process answers isDeviceOpen (or the call rejects)
IsDeviceOpenAnswers ==
    /\ \E i \in 1 .. Len(polls) :
           /\ polls[i] = "isDeviceOpen"
           /\ \E open \in BOOLEAN : afterIsDeviceOpen(i, open, "isDeviceOpen")
    /\ UNCHANGED <<state, mountedRef, connectedDeviceRef, isDummyRef, cancelled,
                   opening, closing, refreshing, devRest>>

\* the main process answers the listDevices of a poll (or the call rejects)
ListDevicesAnswers ==
    /\ \E i \in 1 .. Len(polls) :
           /\ polls[i] = "listDevices"
           /\ polls' = removeAt(polls, i)
           /\ \/ \E devices \in DeviceLists :
                     setState([state EXCEPT !.devices = devices, !.error = "null"],
                              connectedDeviceRef, isDummyRef)
              \/ UNCHANGED <<state, connectedDeviceRef, isDummyRef>>
    /\ timerId' = scheduleNext
    /\ devEvent' = DevEvent("listDevices", FALSE)
    /\ UNCHANGED <<mountedRef, cancelled, opening, closing, refreshing, devRest>>

\* the timer of withTimeout rejects the call a poll awaits
PollTimeout ==
    /\ \E i \in 1 .. Len(polls) :
           /\ polls[i] \in TimedCalls
           /\ IF polls[i] = "isDeviceOpen"
              THEN afterIsDeviceOpen(i, FALSE, "timeout")
              ELSE /\ polls' = removeAt(polls, i)
                   /\ timerId' = scheduleNext
                   /\ devEvent' = DevEvent("timeout", FALSE)
    /\ UNCHANGED <<state, mountedRef, connectedDeviceRef, isDummyRef, cancelled,
                   opening, closing, refreshing, devRest>>

\* the closeDevice of handleDisconnect resolves or rejects: handleDisconnect
\* and the poll run to their end
HandleDisconnectResumes ==
    /\ \E i \in 1 .. Len(polls) :
           /\ polls[i] = "closeDevice"
           /\ polls' = removeAt(polls, i)
    /\ setState([state EXCEPT !.connectedDevice = NoDevice, !.isDummy = FALSE],
                NoDevice, FALSE)
    /\ timerId' = scheduleNext
    /\ devEvent' = DevEvent("handleDisconnect", FALSE)
    /\ UNCHANGED <<mountedRef, cancelled, opening, closing, refreshing, devRest>>

\* refreshDevices called by the component, up to its await
refreshDevices ==
    /\ mountedRef
    /\ ~refreshing
    /\ refreshing' = TRUE
    /\ devEvent' = DevEvent("refreshDevices", FALSE)
    /\ UNCHANGED <<state, mountedRef, connectedDeviceRef, isDummyRef, cancelled,
                   timerId, polls, opening, closing, devRest>>

\* the main process answers the listDevices of refreshDevices, or the call
\* rejects
RefreshAnswers ==
    /\ refreshing
    /\ refreshing' = FALSE
    /\ \/ \E devices \in DeviceLists :
              setState([state EXCEPT !.devices = devices, !.error = "null"],
                       connectedDeviceRef, isDummyRef)
       \/ setState([state EXCEPT !.error = "Error"], connectedDeviceRef, isDummyRef)
    /\ devEvent' = DevEvent("listed", FALSE)
    /\ UNCHANGED <<mountedRef, cancelled, timerId, polls, opening, closing, devRest>>

\* connectDevice(device), up to its await of openDevice
connectDevice ==
    /\ mountedRef
    /\ opening = NoDevice
    /\ opening' = Keyboard
    /\ setState([state EXCEPT !.connecting = TRUE, !.error = "null"],
                connectedDeviceRef, isDummyRef)
    /\ devEvent' = DevEvent("connectDevice", FALSE)
    /\ UNCHANGED <<mountedRef, cancelled, timerId, polls, closing, refreshing,
                   devRest>>

\* the main process answers openDevice, or the call rejects
OpenDeviceAnswers ==
    /\ opening # NoDevice
    /\ opening' = NoDevice
    /\ \/ setState([state EXCEPT !.connectedDevice = opening, !.connecting = FALSE],
                   connectedDeviceRef, isDummyRef)
       \/ setState([state EXCEPT !.connecting = FALSE,
                                 !.error = "Failed to open device"],
                   connectedDeviceRef, isDummyRef)
       \/ setState([state EXCEPT !.connecting = FALSE, !.error = "Error"],
                   connectedDeviceRef, isDummyRef)
    /\ devEvent' = DevEvent("openDevice", FALSE)
    /\ UNCHANGED <<mountedRef, cancelled, timerId, polls, closing, refreshing,
                   devRest>>

connectDummy ==
    /\ mountedRef
    /\ setState([state EXCEPT !.connectedDevice = Dummy, !.isDummy = TRUE,
                              !.connecting = FALSE, !.error = "null"],
                Dummy, TRUE)
    /\ devEvent' = DevEvent("connectDummy", FALSE)
    /\ UNCHANGED <<mountedRef, cancelled, timerId, polls, opening, closing,
                   refreshing, devRest>>

\* disconnectDevice: to its end for a dummy keyboard, else up to its await
\* of closeDevice
disconnectDevice ==
    /\ mountedRef
    /\ ~closing
    /\ IF isDummyRef
       THEN /\ setState([state EXCEPT !.connectedDevice = NoDevice,
                                      !.isDummy = FALSE],
                        NoDevice, FALSE)
            /\ UNCHANGED closing
       ELSE /\ closing' = TRUE
            /\ connectedDeviceRef' = NoDevice
            /\ isDummyRef' = FALSE
            /\ UNCHANGED state
    /\ devEvent' = DevEvent("disconnectDevice", ~isDummyRef)
    /\ UNCHANGED <<mountedRef, cancelled, timerId, polls, opening, refreshing,
                   devRest>>

\* the closeDevice of disconnectDevice resolves or rejects
CloseDeviceAnswers ==
    /\ closing
    /\ closing' = FALSE
    /\ setState([state EXCEPT !.connectedDevice = NoDevice, !.isDummy = FALSE],
                connectedDeviceRef, isDummyRef)
    /\ devEvent' = DevEvent("disconnected", FALSE)
    /\ UNCHANGED <<mountedRef, cancelled, timerId, polls, opening, refreshing,
                   devRest>>

\* the cleanups of the effects
Unmount ==
    /\ mountedRef
    /\ mountedRef' = FALSE
    /\ cancelled' = TRUE
    /\ timerId' = IF timerId = "armed" THEN "cleared" ELSE timerId
    /\ devEvent' = DevEvent("unmount", FALSE)
    /\ UNCHANGED <<state, connectedDeviceRef, isDummyRef, polls, opening, closing,
                   refreshing, devRest>>

NextDevice ==
    \/ poll
    \/ IsDeviceOpenAnswers
    \/ ListDevicesAnswers
    \/ PollTimeout
    \/ HandleDisconnectResumes
    \/ refreshDevices
    \/ RefreshAnswers
    \/ connectDevice
    \/ OpenDeviceAnswers
    \/ connectDummy
    \/ disconnectDevice
    \/ CloseDeviceAnswers
    \/ Unmount

SpecDevice == InitDevice /\ [][NextDevice]_vars

\* the event loop runs the callback of an armed timer when its time has
\* come: the poll timer after POLL_INTERVAL_MS (1000), the timer of
\* withTimeout after POLL_TIMEOUT_MS (5000).  Nothing makes the main process
\* answer.
SpecDeviceFair == SpecDevice /\ WF_vars(poll) /\ WF_vars(PollTimeout)

(***************************************************************************)
(* Properties of the codec.                                                *)
(***************************************************************************)
InRange(a) == a.layer \in 0 .. 15 /\ a.mask \in 0 .. 31 /\ a.key \in 0 .. 255

\* C1: every code in 0..0xFFFF classifies as exactly one wrapper mode, the
\* first of LayerTap, HoldTap, LayerMod, ModTap, ModifierMask whose range
\* holds the code, else none; every code of the LayerMod range lies in the
\* ModTap range and classifies as LayerMod, never as ModTap.
C1_ClassifyFirstMatch ==
    fn = "classify" =>
        LET c == arg.code IN
        /\ kind \in WrapperModes
        /\ (kind = "lt") <=> c \in \h4000 .. \h4fff
        /\ (kind = "shT") <=> c \in \h5600 .. \h56ef
        /\ (kind = "lm") <=> c \in \h7000 .. \h70ff
        /\ (kind = "modTap") <=> c \in (\h6000 .. \h7fff) \ (\h7000 .. \h70ff)
        /\ (kind = "modMask") <=> c \in \h0100 .. \h1fff
        /\ isLMKeycode(c) => isModTapKeycode(c) /\ kind = "lm" /\ kind # "modTap"

C1_Witness == fn = "classify" /\ arg.code = \h7002 /\ kind = "lm"

\* C2: round-trip law: for every wrapper kind and every in-range field tuple,
\* if the built code classifies as that kind, the kind's extract functions
\* return the fields the code was built from.
C2_RoundTripLaw ==
    InRange(arg) =>
        /\ fn = "buildModMaskKeycode" /\ kind = "modMask" =>
               extractModMask(out) = arg.mask /\ extractBasicKey(out) = arg.key
        /\ fn = "buildModTapKeycode" /\ kind = "modTap" =>
               extractModMask(out) = arg.mask /\ extractBasicKey(out) = arg.key
        /\ fn = "buildLTKeycode" /\ kind = "lt" =>
               extractLTLayer(out) = arg.layer /\ extractBasicKey(out) = arg.key
        /\ fn = "buildSHTKeycode" /\ kind = "shT" =>
               extractBasicKey(out) = arg.key
        /\ fn = "buildLMKeycode" /\ kind = "lm" =>
               extractLMLayer(out) = arg.layer /\ extractLMMod(out) = arg.mask

\* C3: for mask in 1..31 and key in 0..255, buildModMaskKeycode(mask, key)
\* classifies as ModifierMask and extractModMask / extractBasicKey give back
\* mask and key.
C3_ModMaskRoundTrip ==
    fn = "buildModMaskKeycode" /\ arg.mask \in 1 .. 31 /\ arg.key \in 0 .. 255 =>
        /\ kind = "modMask"
        /\ extractModMask(out) = arg.mask
        /\ extractBasicKey(out) = arg.key

C3_Witness ==
    fn = "buildModMaskKeycode" /\ arg.mask = 31 /\ arg.key = 255 /\ out = \h1fff

\* C4: degeneration: for key in 0..255, buildModMaskKeycode(0, key) and
\* buildModTapKeycode(0, key) are the key itself, which classifies as none.
C4_Degeneration ==
    fn \in {"buildModMaskKeycode", "buildModTapKeycode"}
        /\ arg.mask = 0 /\ arg.key \in 0 .. 255 =>
        out = arg.key /\ kind = "none"

C4_Witness ==
    fn = "buildModTapKeycode" /\ arg.mask = 0 /\ arg.key = \h2c /\ out = \h2c

\* C5: every build function masks each input to its field width before
\* packing: the result for any inputs equals the result for the inputs
\* masked (layer & 0x0F, mod/mask & 0x1F, key & 0xFF), and lies in 0..0xFFFF.
C5_BuildMasksInputs ==
    LET l == And(arg.layer, \h0f)
        m == And(arg.mask, \h1f)
        k == And(arg.key, \hff)
    IN  /\ fn = "buildModMaskKeycode" =>
               out = buildModMaskKeycode(m, k) /\ out \in Codes
        /\ fn = "buildModTapKeycode" =>
               out = buildModTapKeycode(m, k) /\ out \in Codes
        /\ fn = "buildLTKeycode" =>
               out = buildLTKeycode(l, k) /\ out \in Codes
        /\ fn = "buildSHTKeycode" =>
               out = buildSHTKeycode(k) /\ out \in Codes
        /\ fn = "buildLMKeycode" =>
               out = buildLMKeycode(l, m) /\ out \in Codes

C5_Witness ==
    /\ fn = "buildLTKeycode"
    /\ arg.layer = 16
    /\ arg.key = 256
    /\ out = \h4000

\* C6 as stated: for layer in 0..15, key in 0..255, mod in 0..31 the codes
\* built by buildLTKeycode, buildSHTKeycode and buildLMKeycode classify as
\* LayerTap, HoldTap and LayerMod.
C6_NeverDegenerate ==
    InRange(arg) =>
        /\ fn = "buildLTKeycode" => kind = "lt"
        /\ fn = "buildSHTKeycode" => kind = "shT"
        /\ fn = "buildLMKeycode" => kind = "lm"

\* C6 amended: the same, with buildSHTKeycode restricted to key in 0..0xEF
\* (for key in 0xF0..0xFF the built code 0x56F0..0x56FF lies above the
\* HoldTap range and classifies as none); buildLMKeycode(0, 0) = 0x7000 and
\* buildLMKeycode(0, 2) = 0x7002.
C6_NeverDegenerateAmended ==
    InRange(arg) =>
        /\ fn = "buildLTKeycode" => kind = "lt"
        /\ fn = "buildSHTKeycode" =>
               kind = (IF arg.key <= \hef THEN "shT" ELSE "none")
        /\ fn = "buildLMKeycode" =>
               /\ kind = "lm"
               /\ arg.layer = 0 /\ arg.mask = 0 => out = \h7000
               /\ arg.layer = 0 /\ arg.mask = 2 => out = \h7002

C6_Witness ==
    fn = "buildSHTKeycode" /\ arg.key = \hef /\ out = \h56ef /\ kind = "shT"

\* C7: for every layer and key, extractLTLayer and extractBasicKey of
\* buildLTKeycode(layer, key) are layer & 0x0F and key & 0xFF;
\* buildLTKeycode(2, 4) = 0x4204.
C7_LTRoundTrip ==
    fn = "buildLTKeycode" =>
        /\ extractLTLayer(out) = And(arg.layer, \h0f)
        /\ extractBasicKey(out) = And(arg.key, \hff)
        /\ arg.layer = 2 /\ arg.key = 4 => out = \h4204

C7_Witness == fn = "buildLTKeycode" /\ arg.layer = 2 /\ arg.key = 4 /\ out = \h4204

\* a bare name has no parenthesis: it is not of the form OUTER(INNER)
IsBare(name) == \A i \in 1 .. Len(name) : SubSeq(name, i, i) # "("

\* C10 as stated: every bare name that is not a catalog id or alias resolves
\* to 0.
C10_UnknownResolvesToZero ==
    fn = "resolve" /\ IsBare(arg.name) /\ arg.name \notin CatalogNames => out = 0

\* C10 amended: resolve returns a 16-bit integer for every name, and every
\* bare name that is neither a catalog id or alias nor the name of one of
\* the protocol constants QMK_LM_MASK and QK_LAYER_TAP resolves to 0.
C10_UnknownResolvesToZeroAmended ==
    fn = "resolve" =>
        /\ out \in Codes
        /\ IsBare(arg.name)
               /\ arg.name \notin CatalogNames \cup {"QMK_LM_MASK", "QK_LAYER_TAP"} =>
               out = 0

C10_Witness == fn = "resolve" /\ arg.name = "KC_Z" /\ out = 0

C8_NoLeakFromLayerMod ==
    lastOp.op = "modeSwitch" /\ isLMKeycode(lastOp.before) /\ lastOp.target # "lm" =>
        /\ lastOp.cb = "onRawKeycodeSelect"
        /\ lastOp.code = (IF lastOp.target = "lt" THEN buildLTKeycode(selectedLayer, 0)
                          ELSE IF lastOp.target = "shT" THEN buildSHTKeycode(0)
                          ELSE 0)

C15_SelectByMode ==
    lastOp.op = "keycodeSelect" =>
        LET key == resolve(lastOp.name)
            mask == (lastOp.before \div 256) % 32
        IN  /\ lastOp.target = wrapperMode
            /\ lastOp.target = "none" =>
                   lastOp.cb = "onKeycodeSelect" /\ lastOp.code = NoEmit
            /\ lastOp.target # "none" =>
                   /\ lastOp.cb = "onRawKeycodeSelect"
                   /\ currentKeycode = lastOp.code
            /\ lastOp.target = "lt" =>
                   lastOp.code = \h4000 + 256 * selectedLayer + key
            /\ lastOp.target = "shT" => lastOp.code = \h5600 + key
            /\ lastOp.target = "modTap" =>
                   lastOp.code = (IF mask = 0 THEN key ELSE \h6000 + 256 * mask + key)
            /\ lastOp.target = "modMask" =>
                   lastOp.code = (IF mask = 0 THEN key ELSE 256 * mask + key)

C15_Witness ==
    /\ lastOp.op = "keycodeSelect"
    /\ lastOp.target = "lt"
    /\ lastOp.name = "KC_B"
    /\ lastOp.before = \h4104
    /\ lastOp.code = \h4105

\* C16: a switch into LT, SH_T or LM calls onRawKeycodeSelect at once with
\* the rebuilt keycode: LT of the selected layer and the basic key, SH_T of
\* the basic key, LM of the selected layer with no modifier (0x7000 from a
\* basic key with layer 0), the basic key being the low byte of the current
\* keycode (0 when leaving LM); in LT mode choosing layer n emits LT of n
\* with the low byte of the current keycode.
C16_SwitchRebuilds ==
    /\ lastOp.op = "modeSwitch" /\ lastOp.target \in {"lt", "shT", "lm"} =>
           LET key == IF lastOp.name = "lm" THEN 0 ELSE lastOp.before % 256 IN
           /\ lastOp.cb = "onRawKeycodeSelect"
           /\ currentKeycode = lastOp.code
           /\ wrapperMode = lastOp.target
           /\ lastOp.target = "lt" =>
                  lastOp.code = \h4000 + 256 * selectedLayer + key
           /\ lastOp.target = "shT" => lastOp.code = \h5600 + key
           /\ lastOp.target = "lm" => lastOp.code = \h7000 + 16 * selectedLayer
           /\ lastOp.target = "lm" /\ lastOp.name = "none" /\ selectedLayer = 0 =>
                  lastOp.code = \h7000
    /\ lastOp.op = "layerChange" /\ lastOp.target = "lt" =>
           /\ lastOp.cb = "onRawKeycodeSelect"
           /\ selectedLayer = lastOp.n
           /\ lastOp.code = \h4000 + 256 * lastOp.n + (lastOp.before % 256)
           /\ currentKeycode = lastOp.code

C16_Witness ==
    /\ lastOp.op = "layerChange"
    /\ lastOp.target = "lt"
    /\ lastOp.n = 2
    /\ lastOp.before = \h4104
    /\ lastOp.code = \h4204

\* C17: a click on an enabled modifier button (side s, bit b) with mask m
\* calls onChange with m's modifier bits with exactly bit b flipped, and the
\* right-hand flag (bit 4) set if and only if s is the right side and a
\* modifier bit remains set; the value lies in 0..31 (0 + LCtl = 0x01,
\* 0x01 + LCtl = 0x00, 0x01 + LSft = 0x03, 0x11 + RSft = 0x13).
C17_ToggleFlipsOneBit ==
    lastClick.called =>
        LET m == lastClick.before
            b == lastClick.bit
            low == m % 16
            flipped == IF (m \div Pow2(b)) % 2 = 1 THEN low - Pow2(b) ELSE low + Pow2(b)
        IN  /\ lastClick.value =
                   flipped + (IF lastClick.right /\ flipped # 0 THEN 16 ELSE 0)
            /\ lastClick.value \in 0 .. 31
            /\ m = 0 /\ b = 0 /\ ~lastClick.right => lastClick.value = \h01
            /\ m = \h01 /\ b = 0 /\ ~lastClick.right => lastClick.value = \h00
            /\ m = \h01 /\ b = 1 /\ ~lastClick.right => lastClick.value = \h03
            /\ m = \h11 /\ b = 1 /\ lastClick.right => lastClick.value = \h13

C17_Witness ==
    /\ lastClick.called
    /\ lastClick.before = \h11
    /\ lastClick.right
    /\ lastClick.bit = 0
    /\ lastClick.value = 0

\* C18: left and right modifiers exclude each other: when one of the four
\* modifier bits of the mask is set, the four buttons of the side opposite
\* to the mask's side flag are disabled and a click on one calls nothing,
\* while the buttons of the flag's side are enabled; when no modifier bit
\* is set all eight buttons are enabled; a button is active only on the
\* side of the flag.
C18_SidesExclusive ==
    LET low == modMaskProp % 16
        flag == (modMaskProp \div 16) % 2 = 1
    IN  /\ \A right \in BOOLEAN :
               /\ low # 0 => (disabled(modMaskProp, right) <=> right # flag)
               /\ low = 0 => ~disabled(modMaskProp, right)
               /\ \A bit \in MODS :
                      active(modMaskProp, bit, right) =>
                          right = flag /\ (modMaskProp \div Pow2(bit)) % 2 = 1
        /\ lastClick.op = "click" =>
               /\ lastClick.before = modMaskProp
               /\ lastClick.called <=> (low = 0 \/ lastClick.right = flag)

C18_Witness ==
    /\ lastClick.op = "click"
    /\ lastClick.before = \h01
    /\ lastClick.right
    /\ lastClick.bit = 0
    /\ ~lastClick.called

\* C9: in maskOnly mode the Code tab shows the inner byte of the current
\* code (two hex digits), an apply emits the current code with its inner
\* byte replaced by the typed byte, in either letter case (0x5104 with 2C
\* or 2c gives 0x512C), is never made with more than two digits typed, and
\* calls onRawKeycodeSelect only (never onClose).
C9_MaskOnlyCodeTab ==
    maskOnly =>
        /\ lastOp.op = "setActiveTab" /\ activeTab = "code" =>
               /\ Len(hexInput) = 2
               /\ ParseHex(hexInput) = currentKeycode % 256
               /\ currentKeycode = \h5104 => hexInput = "04"
        /\ lastOp.op = "applyCode" =>
               /\ Len(lastOp.name) \in 1 .. 2
               /\ lastOp.cb = "onRawKeycodeSelect"
               /\ lastOp.code = (lastOp.before \div 256) * 256 + ParseHex(lastOp.name)
               /\ currentKeycode = lastOp.code
               /\ lastOp.before = \h5104 /\ lastOp.name \in {"2C", "2c"} =>
                      lastOp.code = \h512c
               /\ ~Closed

C9_Witness ==
    /\ maskOnly
    /\ lastOp.op = "applyCode"
    /\ lastOp.before = \h5104
    /\ lastOp.name = "2c"
    /\ currentKeycode = \h512c

(***************************************************************************)
(* Properties of LZMA / XZ decompression.                                  *)
(***************************************************************************)
\* C19: the LZMA_DECOMPRESS handler resolves null without invoking a
\* decompressor when the input is null, undefined, not an array, empty or
\* longer than 1 MB (1048576 elements); an input of exactly 1 MB is
\* accepted; accepted input that starts with the six bytes FD 37 7A 58 5A 00
\* goes to the xz child process, all other accepted input to the LZMA
\* library.
C19_HandlerRouting ==
    route # "idle" =>
        LET reject == \/ data.type # "array"
                      \/ data.length = 0
                      \/ data.length > 1048576
            magic == /\ data.length >= 6
                     /\ Len(data.head) = 6
                     /\ data.head = << 253, 55, 122, 88, 90, 0 >>
        IN  /\ (route = "rejected") <=> reject
            /\ (route = "xz") <=> (~reject /\ magic)
            /\ (route = "lzma") <=> (~reject /\ ~magic)
            /\ route = "rejected" =>
                   promise = resolvedNull /\ ~child.spawned /\ ~lzmaCalled
            /\ route = "xz" => child.spawned /\ child.stdinEnded /\ ~lzmaCalled
            /\ route = "lzma" => lzmaCalled /\ ~child.spawned
            /\ data.type = "array" /\ data.length = 1048576 => route # "rejected"

C19_Witness ==
    /\ route = "lzma"
    /\ data.type = "array"
    /\ data.length = MAX_COMPRESSED_SIZE
    /\ promise.state = "resolved"
    /\ ~promise.null

\* C20: XZ decompression never returns more than 10 MB (10485760 bytes):
\* once the cumulative stdout size exceeds the limit the child has been
\* killed and the promise is resolved with null, whether or not the child
\* has closed, and a close with exit code 0 leaves it null; a string is
\* returned only when the child closed with exit code 0 and the total never
\* exceeded the limit, and it is the chunks in arrival order.
C20_XzOutputLimit ==
    route = "xz" =>
        /\ totalSize > 10485760 =>
               /\ promise = resolvedNull
               /\ child.kills >= 1
        /\ promise.state = "resolved" /\ ~promise.null =>
               /\ child.closed
               /\ child.code = 0
               /\ totalSize <= 10485760
               /\ promise.size = totalSize
               /\ chunks = arrived
               /\ Len(promise.text) = Len(arrived)
               /\ \A i \in 1 .. Len(arrived) : Char(promise.text, i) = arrived[i].text

C20_Witness ==
    /\ route = "xz"
    /\ lastEvent = "data"
    /\ Len(arrived) = 2
    /\ arrived[1].length = HalfSize
    /\ arrived[2].length = HalfSize + 1
    /\ ~child.closed
    /\ child.kills = 1
    /\ promise = resolvedNull

\* C21: every XZ request settles: once the handler has spawned xz, the
\* promise is eventually resolved whatever the child does (even if it never
\* closes nor errors), and when the timer fires the child is killed and the
\* promise, not settled before, resolves null.
C21_XzEventuallySettles ==
    /\ [](lastEvent = "timeout" => child.kills >= 1 /\ promise.state = "resolved")
    /\ [](lastEvent = "timeout" /\ ~child.closed /\ ~child.errored
              /\ totalSize <= MAX_DECOMPRESSED_SIZE => promise = resolvedNull)
    /\ (route = "xz") ~> (promise.state = "resolved")

C21_Witness ==
    /\ route = "xz"
    /\ lastEvent = "timeout"
    /\ arrived = <<>>
    /\ ~child.closed
    /\ ~child.errored
    /\ child.kills = 1
    /\ promise = resolvedNull

\* C22: the XZ promise is settled exactly once: while it is pending the
\* timer is armed; the first of timeout, output over the limit, close and
\* error resolves it and the timer is no longer armed from then on; no later
\* event changes the result; an error or a close with a non-zero or null
\* exit code that settles it yields null.
C22_XzSettledOnce ==
    /\ [](route = "xz" =>
             /\ promise.state \in {"pending", "resolved"}
             /\ (promise.state = "pending") <=> ~settled
             /\ (promise.state = "pending") <=> (timer = "armed"))
    /\ [][route = "xz" /\ promise.state = "resolved" => promise' = promise]_vars
    /\ [][route = "xz" /\ promise.state = "pending" /\ promise'.state = "resolved"
            /\ (child'.errored # child.errored
                    \/ (child'.closed /\ ~child.closed /\ child'.code # 0))
            => promise' = resolvedNull]_vars

C22_Witness ==
    /\ route = "xz"
    /\ lastEvent = "close"
    /\ child.errored
    /\ child.code = 0
    /\ child.kills = 0
    /\ Len(arrived) = 1
    /\ promise = resolvedNull
    /\ timer = "cleared"

\* C23: the LZMA path always resolves: with null when the library throws,
\* reports an error through the callback, hands over null, or hands over
\* output (a string or a Uint8Array) whose UTF-8 byte length as a string
\* exceeds 10 MB (10485760); otherwise with the output as a string.
C23_LzmaPath ==
    route = "lzma" =>
        /\ promise.state \in {"pending", "resolved"}
        /\ (promise.state = "pending") <=> (libResult.outcome = "none")
        /\ promise.state = "resolved" =>
               LET r == libResult
                   bad == \/ r.outcome = "throw"
                          \/ r.error
                          \/ r.kind = "null"
                          \/ r.utf8 > 10485760
               IN  /\ bad => promise = resolvedNull
                   /\ ~bad =>
                          /\ ~promise.null
                          /\ promise.text = r.text
                          /\ promise.size = r.utf8
                          /\ promise.size <= 10485760

C23_Witness ==
    /\ route = "lzma"
    /\ libResult.kind = "bytes"
    /\ libResult.size = HalfSize
    /\ libResult.utf8 = 3 * HalfSize
    /\ promise = resolvedNull

(***************************************************************************)
(* Properties of useFavoriteManage.                                        *)
(***************************************************************************)
isEdit(c) == c.op \in {"renameEntry", "deleteEntry"}

\* C24: a renameEntry or deleteEntry call returns true exactly when the
\* store reported success, and calls favoriteStoreList (with the hook's
\* favoriteType) exactly then; when the store reports failure or throws,
\* the call returns false in that step, without calling favoriteStoreList
\* and with entries as they were.
C24_EditRefreshesOnSuccess ==
    /\ [](\A s \in Slots :
             isEdit(calls[s]) =>
                 /\ calls[s].pc = "store" => ~calls[s].listed
                 /\ calls[s].pc = "list" =>
                        /\ calls[s].result.outcome = "success"
                        /\ calls[s].listed
                        /\ calls[s].listArg = favoriteType
                 /\ calls[s].pc = "done" =>
                        /\ calls[s].ret \in {"true", "false"}
                        /\ calls[s].ret = "true"
                               <=> calls[s].result.outcome = "success"
                        /\ calls[s].listed
                               <=> calls[s].result.outcome = "success"
                        /\ calls[s].listed => calls[s].listArg = favoriteType)
    /\ [][\A s \in Slots :
             /\ isEdit(calls[s])
             /\ calls[s].pc = "store"
             /\ calls'[s].result.outcome \in {"failure", "throw"}
             => /\ calls'[s].pc = "done"
                /\ calls'[s].ret = "false"
                /\ ~calls'[s].listed
                /\ entries' = entries]_vars

\* a rename that failed next to a delete that succeeded and refreshed
C24_Witness ==
    \E s, t \in Slots :
        /\ calls[s].op = "renameEntry"
        /\ calls[s].pc = "done"
        /\ calls[s].result.outcome = "failure"
        /\ calls[s].ret = "false"
        /\ calls[t].op = "deleteEntry"
        /\ calls[t].pc = "done"
        /\ calls[t].ret = "true"
        /\ calls[t].listed
        /\ entries = <<"e1">>

\* C25: importing is true exactly while an importFavorites call is in
\* flight, and exporting exactly while an exportAll or exportEntry call is,
\* whatever the calls' outcomes and however they interleave.
C25_FlagsTrackCallsInFlight ==
    /\ importing <=> importsInFlight # {}
    /\ exporting <=> exportsInFlight # {}

\* C26: importFavorites sets importResult to null when it starts.  When the
\* store answers, a success puts the store's {imported, skipped} there and
\* calls favoriteStoreList; a cancelled import or a throw leaves
\* importResult as it is (null, when no other import ran meanwhile) and any
\* other failure puts {imported: 0, skipped: 0} there.  The call returns
\* true only after a success.
C26_ImportResult ==
    /\ [](\A s \in Slots :
             calls[s].op = "importFavorites" =>
                 /\ calls[s].pc = "store" /\ calls[s].solo => importResult.null
                 /\ calls[s].pc = "list" =>
                        calls[s].listed /\ calls[s].listArg = favoriteType
                 /\ calls[s].pc = "done" =>
                        (calls[s].ret = "true"
                            <=> calls[s].result.outcome = "success"))
    /\ [][\A s \in Slots :
             /\ calls'[s].op = "importFavorites"
             /\ calls'[s].pc = "store"
             /\ calls[s].pc # "store"
             => importResult' = NoImportResult]_vars
    /\ [][\A s \in Slots :
             /\ calls[s].op = "importFavorites"
             /\ calls[s].pc = "store"
             /\ calls'[s].pc # "store"
             => LET r == calls'[s].result
                IN  IF r.outcome = "success"
                    THEN /\ importResult' =
                                [null |-> FALSE, imported |-> r.imported,
                                 skipped |-> r.skipped]
                         /\ calls'[s].pc = "list"
                    ELSE /\ calls'[s].pc = "done"
                         /\ calls'[s].ret = "false"
                         /\ IF r.outcome = "throw" \/ r.error = "cancelled"
                            THEN /\ importResult' = importResult
                                 /\ calls[s].solo => importResult'.null
                            ELSE importResult' =
                                     [null |-> FALSE, imported |-> 0,
                                      skipped |-> 0]]_vars

\* an import that succeeded and refreshed, then one that was cancelled
C26_Witness ==
    \E s, t \in Slots :
        /\ calls[s].op = "importFavorites"
        /\ calls[s].pc = "done"
        /\ calls[s].ret = "true"
        /\ calls[t].op = "importFavorites"
        /\ calls[t].pc = "done"
        /\ calls[t].result.error = "cancelled"
        /\ calls[t].ret = "false"
        /\ importResult.null
        /\ ~importing
        /\ entries = <<"e1">>

(***************************************************************************)
(* Properties of buildCsp.                                                 *)
(***************************************************************************)
\* C27: the policy contains each of the eight base directives and names no
\* directive twice.  Built with isDev false it contains neither
\* unsafe-inline nor unsafe-eval nor ws://; script-src and style-src list
\* 'unsafe-inline', and connect-src lists ws://localhost:*, exactly when
\* isDev is true, and no other directive ever lists them.
C27_CspDirectives ==
    csp # "" =>
        /\ Len(BASE_DIRECTIVES) = 8
        /\ LET ds == Range(directivesOf(csp))
           IN  \A d \in Range(BASE_DIRECTIVES) : contains(csp, d) /\ d \in ds
        /\ LET keys == keysOf(csp)
           IN  Cardinality(Range(keys)) = Len(keys)
        /\ ~isDev =>
               /\ ~contains(csp, "unsafe-inline")
               /\ ~contains(csp, "unsafe-eval")
               /\ ~contains(csp, "ws://")
        /\ isDev <=> "'unsafe-inline'" \in sourcesOf(csp, "script-src")
        /\ isDev <=> "'unsafe-inline'" \in sourcesOf(csp, "style-src")
        /\ isDev <=> "ws://localhost:*" \in sourcesOf(csp, "connect-src")
        /\ ~contains(csp, "unsafe-eval")
        /\ cspAnswer.asked /\ cspAnswer.has =>
               /\ cspQuery.source = "'unsafe-inline'" =>
                      isDev /\ cspQuery.name \in {"script-src", "style-src"}
               /\ cspQuery.source = "ws://localhost:*" =>
                      isDev /\ cspQuery.name = "connect-src"
               /\ cspQuery.source # "'unsafe-eval'"

\* the development policy, asked whether script-src allows 'unsafe-inline'
C27_Witness ==
    /\ isDev
    /\ csp = buildCsp(TRUE)
    /\ cspQuery = [name |-> "script-src", source |-> "'unsafe-inline'"]
    /\ cspAnswer.has

(***************************************************************************)
(* Properties of useDeviceConnection.                                      *)
(***************************************************************************)
\* C28: at most one poll is in flight, and the timer of the next poll is
\* armed only when none is.
C28_OnePollInFlight ==
    /\ Len(polls) <= 1
    /\ timerId = "armed" => polls = <<>>

\* a poll that went through the health check and handleDisconnect has ended
\* and armed the timer of the next
C28_Witness ==
    /\ devEvent.op = "handleDisconnect"
    /\ mountedRef
    /\ polls = <<>>
    /\ timerId = "armed"
    /\ state.connectedDevice = NoDevice

\* C29: while the hook is mounted, every poll in flight comes to its end
\* and arms the timer of the next, whatever the main process leaves
\* unanswered.
C29_PollingNeverStalls ==
    (mountedRef /\ polls # <<>>)
        ~> (~mountedRef \/ (polls = <<>> /\ timerId = "armed"))

dummyConnected == state.connectedDevice = Dummy /\ state.isDummy

\* C30: while the dummy keyboard is connected, a step that belongs neither
\* to disconnectDevice nor to a connectDevice call leaves it connected and
\* does not invoke closeDevice.
C30_DummyStaysConnected ==
    [][dummyConnected
           /\ devEvent'.op \notin {"disconnectDevice", "disconnected", "openDevice"}
       => dummyConnected' /\ ~devEvent'.closeDevice]_vars

(***************************************************************************)
(* Layer and modifier changes of the popover in LM mode.                   *)
(***************************************************************************)
\* C31: in LM mode on a LayerMod keycode, choosing layer n emits a LayerMod
\* keycode whose layer field is n and whose modifier field is that of the
\* keycode before the change; toggling a modifier emits a LayerMod keycode
\* whose modifier field is the new mask and whose layer field is that of
\* the keycode before the change.
C31_LMFieldsIndependent ==
    /\ lastOp.op = "layerChange" /\ lastOp.target = "lm"
           /\ isLMKeycode(lastOp.before) =>
           /\ lastOp.cb = "onRawKeycodeSelect"
           /\ isLMKeycode(lastOp.code)
           /\ extractLMLayer(lastOp.code) = lastOp.n
           /\ extractLMMod(lastOp.code) = extractLMMod(lastOp.before)
    /\ lastOp.op = "modStripChange" /\ lastOp.target = "lm"
           /\ isLMKeycode(lastOp.before) =>
           /\ lastOp.cb = "onRawKeycodeSelect"
           /\ isLMKeycode(lastOp.code)
           /\ extractLMMod(lastOp.code) = lastOp.n
           /\ extractLMLayer(lastOp.code) = extractLMLayer(lastOp.before)

====
